---------------------------- MODULE Spec2Model ----------------------------
(***************************************************************************)
(* Model of the SuperH-4 RzIL lifter (librz/analysis/arch/sh/sh_il.c).     *)
(*                                                                         *)
(* The lifter builds, for one decoded instruction, a tree of pure          *)
(* expressions and effects.  The trees are modelled as records, the        *)
(* lifting functions as operators that build them exactly as the C code    *)
(* does, and the RzIL evaluator as the recursive operators EvalPure and    *)
(* ExecEffect.  One behaviour of Spec is: an initial machine state drawn   *)
(* from bounded sets, then one instruction lifted and executed.            *)
(*                                                                         *)
(* Values are bit sequences, least significant bit first; a boolean is a   *)
(* bit vector of width 1.  A machine word does not fit a model-checker     *)
(* integer, so no 32-bit value is ever turned into one number.             *)
(***************************************************************************)
EXTENDS Integers, Sequences, FiniteSets, TLC

VARIABLES
    pc,      \* "ready" before the instruction is lifted, "done" after
    insn,    \* the operation record that was lifted (SHOp)
    lifted,  \* TRUE iff the lifting function returned an effect (not NULL)
    pre,     \* machine state before the instruction
    vm,      \* machine state: globals g, locals l, memory m, ok flag
    oob,     \* the bytes behind sh_scaling_size that the lifting reads, by index
    unbound, \* what the evaluator does with a write that no global variable
             \* can take: "abort" the effect, or "skip" the write and go on
    sdb,     \* disk.c: the fields of the Sdb store the dump functions use
    fds,     \* disk.c: the file descriptors the process has open
    log      \* disk.c: the calls made on the store, oldest first

vars == <<pc, insn, lifted, pre, vm, oob, unbound, sdb, fds, log>>

---------------------------------------------------------------------------
(* Bit vectors *)

SH_REG_SIZE == 32
SH_ADDR_SIZE == 32
SH_GPR_COUNT == 16
SH_BANKED_REG_COUNT == 8
BITS_PER_BYTE == 8

\* The evaluation error value (a type error or an unknown variable).
Err == <<-1>>

IsErr(v) == v = Err

\* n (0 <= n < 2^31) as a bit vector of width w
RECURSIVE Bits(_, _)
Bits(n, w) == IF w = 0 THEN <<>> ELSE <<n % 2>> \o Bits(n \div 2, w - 1)

\* a C integer given as 16-bit limbs, least significant first, cut or
\* zero-filled to width w
RECURSIVE Limbs(_, _)
Limbs(ls, w) ==
    IF w = 0 THEN <<>>
    ELSE IF ls = <<>> THEN Bits(0, w)
    ELSE IF w <= 16 THEN Bits(ls[1], w)
    ELSE Bits(ls[1], 16) \o Limbs(Tail(ls), w - 16)

\* a function on 1..n as a plain sequence
Tuple(f) == f \o <<>>

BvZero(w) ==
    Tuple([i \in 1..w |-> 0])

BvNot(x) ==
    Tuple([i \in 1..Len(x) |-> 1 - x[i]])

BvAnd(x, y) ==
    Tuple([i \in 1..Len(x) |-> IF x[i] = 1 /\ y[i] = 1 THEN 1 ELSE 0])

BvOr(x, y) ==
    Tuple([i \in 1..Len(x) |-> IF x[i] = 1 \/ y[i] = 1 THEN 1 ELSE 0])

BvXor(x, y) ==
    Tuple([i \in 1..Len(x) |-> IF x[i] = y[i] THEN 0 ELSE 1])

\* ripple-carry addition modulo 2^Len(x): acc holds the sum bits found so
\* far, c the carry into the next one
RECURSIVE AddFrom(_, _, _, _)
AddFrom(x, y, c, acc) ==
    IF Len(acc) >= Len(x) THEN acc
    ELSE LET i == Len(acc) + 1
             t == x[i] + y[i] + c
         IN AddFrom(x, y, t \div 2, Append(acc, t % 2))

BvAdd(x, y) == AddFrom(x, y, 0, <<>>)

\* x - y = x + ~y + 1 modulo 2^Len(x)
BvSub(x, y) == AddFrom(x, BvNot(y), 1, <<>>)

BvIsZero(x) == \A i \in 1..Len(x) : x[i] = 0

BvMsb(x) == x[Len(x)]

\* the shift amount of a bit vector, saturated at lim (lim < 2^30)
RECURSIVE AmountFrom(_, _, _, _)
AmountFrom(x, i, lim, acc) ==
    IF i = 0 \/ acc < 0 THEN acc
    ELSE LET a == 2 * acc + x[i]
         IN AmountFrom(x, i - 1, lim, IF a > lim THEN lim ELSE a)

BvAmount(x, lim) == AmountFrom(x, Len(x), lim, 0)

BvShiftL(x, k, fill) ==
    Tuple([i \in 1..Len(x) |-> IF i - k >= 1 THEN x[i - k] ELSE fill])

BvShiftR(x, k, fill) ==
    Tuple([i \in 1..Len(x) |-> IF i + k <= Len(x) THEN x[i + k] ELSE fill])

\* shift-and-add multiplication modulo 2^Len(x)
RECURSIVE MulFrom(_, _, _, _)
MulFrom(x, y, i, acc) ==
    IF i > Len(y) \/ Len(acc) # Len(x) THEN acc
    ELSE MulFrom(x, y, i + 1,
                 IF y[i] = 1 THEN BvAdd(acc, BvShiftL(x, i - 1, 0)) ELSE acc)

BvMul(x, y) == MulFrom(x, y, 1, BvZero(Len(x)))

\* cast to width w, the new high bits filled with fill
BvCast(x, w, fill) ==
    Tuple([i \in 1..w |-> IF i <= Len(x) THEN x[i] ELSE fill])

\* unsigned comparison, from the most significant bit down
RECURSIVE UltFrom(_, _, _)
UltFrom(x, y, i) ==
    IF i = 0 THEN FALSE
    ELSE IF x[i] # y[i] THEN x[i] < y[i]
    ELSE UltFrom(x, y, i - 1)

BvUlt(x, y) == UltFrom(x, y, Len(x))

BvUle(x, y) == x = y \/ BvUlt(x, y)

BvSlt(x, y) ==
    IF BvMsb(x) # BvMsb(y) THEN BvMsb(x) = 1 ELSE BvUlt(x, y)

BvSle(x, y) == x = y \/ BvSlt(x, y)

BoolBv(b) == IF b THEN <<1>> ELSE <<0>>

---------------------------------------------------------------------------
(* Expression and effect trees (the rz_il_opbuilder constructors) *)

\* The absent tree: the C NULL pointer.
NULL == [op |-> "NULL"]

IsNull(e) == e.op = "NULL"

Pure1(o, x) == IF IsNull(x) THEN NULL ELSE [op |-> o, x |-> x]

Pure2(o, x, y) ==
    IF IsNull(x) \/ IsNull(y) THEN NULL ELSE [op |-> o, x |-> x, y |-> y]

VARG(name) == [op |-> "var", global |-> TRUE, v |-> name]
VARL(name) == [op |-> "var", global |-> FALSE, v |-> name]

\* a constant of width l; n is a number below 2^31
UN(l, n) == [op |-> "bitv", bits |-> Bits(n, l)]
\* a constant of width l given as 16-bit limbs, least significant first
UNL(l, ls) == [op |-> "bitv", bits |-> Limbs(ls, l)]

SH_U_ADDR(x) == UN(SH_ADDR_SIZE, x)
SH_U_REG(x) == UN(SH_REG_SIZE, x)
SH_BIT(x) == UN(1, x)

ITE(c, x, y) ==
    IF IsNull(c) \/ IsNull(x) \/ IsNull(y) THEN NULL
    ELSE [op |-> "ite", c |-> c, x |-> x, y |-> y]

AND(x, y) == Pure2("and", x, y)
OR(x, y) == Pure2("or", x, y)
XOR(x, y) == Pure2("xor", x, y)
LOGAND(x, y) == Pure2("logand", x, y)
LOGOR(x, y) == Pure2("logor", x, y)
LOGNOT(x) == Pure1("lognot", x)
ADD(x, y) == Pure2("add", x, y)
SUB(x, y) == Pure2("sub", x, y)
MUL(x, y) == Pure2("mul", x, y)
SHIFTL0(x, y) == Pure2("shiftl0", x, y)
SHIFTR0(x, y) == Pure2("shiftr0", x, y)
MSB(x) == Pure1("msb", x)
IS_ZERO(x) == Pure1("is_zero", x)
NON_ZERO(x) == Pure1("non_zero", x)
EQ(x, y) == Pure2("eq", x, y)
ULT(x, y) == Pure2("ult", x, y)
UGT(x, y) == Pure2("ugt", x, y)
UGE(x, y) == Pure2("uge", x, y)
SGT(x, y) == Pure2("sgt", x, y)
SGE(x, y) == Pure2("sge", x, y)

UNSIGNED(n, x) == IF IsNull(x) THEN NULL ELSE [op |-> "cast", n |-> n, signed |-> FALSE, x |-> x]
SIGNED(n, x) == IF IsNull(x) THEN NULL ELSE [op |-> "cast", n |-> n, signed |-> TRUE, x |-> x]

LOADW(n, addr) == IF IsNull(addr) THEN NULL ELSE [op |-> "loadw", n |-> n, x |-> addr]

DUP(x) == x

SETG(name, x) == IF IsNull(x) THEN NULL ELSE [op |-> "set", global |-> TRUE, v |-> name, x |-> x]
SETL(name, x) == IF IsNull(x) THEN NULL ELSE [op |-> "set", global |-> FALSE, v |-> name, x |-> x]

STOREW(addr, val) ==
    IF IsNull(addr) \/ IsNull(val) THEN NULL
    ELSE [op |-> "storew", x |-> addr, y |-> val]

BRANCH(c, t, f) ==
    IF IsNull(c) \/ IsNull(t) \/ IsNull(f) THEN NULL
    ELSE [op |-> "branch", c |-> c, t |-> t, f |-> f]

\* rz_il_op_new_seq refuses an absent operand
SEQ2(x, y) == IF IsNull(x) \/ IsNull(y) THEN NULL ELSE [op |-> "seq", x |-> x, y |-> y]

\* rz_il_op_new_seqn chains its operands without looking at them
SEQ3(a, b, c) == [op |-> "seq", x |-> a, y |-> [op |-> "seq", x |-> b, y |-> c]]

SEQ4(a, b, c, d) == [op |-> "seq", x |-> a, y |-> SEQ3(b, c, d)]

---------------------------------------------------------------------------
(* The evaluator *)

BigEndian == FALSE

\* the n-bit value stored at addr: n / 8 bytes, absent bytes read as zero
RECURSIVE LoadBytes(_, _, _)
LoadBytes(m, addr, k) ==
    IF k = 0 THEN <<>>
    ELSE LET b == IF addr \in DOMAIN m THEN m[addr] ELSE BvZero(BITS_PER_BYTE)
             rest == LoadBytes(m, BvAdd(addr, Bits(1, Len(addr))), k - 1)
         IN IF BigEndian THEN rest \o b ELSE b \o rest

RECURSIVE StoreBytes(_, _, _)
StoreBytes(m, addr, val) ==
    IF Len(val) < BITS_PER_BYTE THEN m
    ELSE LET n == Len(val)
             b == IF BigEndian THEN SubSeq(val, n - BITS_PER_BYTE + 1, n)
                               ELSE SubSeq(val, 1, BITS_PER_BYTE)
             rest == IF BigEndian THEN SubSeq(val, 1, n - BITS_PER_BYTE)
                                  ELSE SubSeq(val, BITS_PER_BYTE + 1, n)
             m1 == [a \in DOMAIN m \cup {addr} |-> IF a = addr THEN b ELSE m[a]]
         IN StoreBytes(m1, BvAdd(addr, Bits(1, Len(addr))), rest)

\* the value of a binary operation on two evaluated operands
Binary(o, a, b) ==
    IF IsErr(a) \/ IsErr(b) THEN Err
    ELSE IF o \in {"shiftl0", "shiftr0"} THEN
        IF o = "shiftl0" THEN BvShiftL(a, BvAmount(b, Len(a)), 0)
        ELSE BvShiftR(a, BvAmount(b, Len(a)), 0)
    ELSE IF Len(a) # Len(b) THEN Err
    \* AND, OR and XOR are the connectives of booleans: rz_il_evaluate_bool
    \* refuses an operand that is not one
    ELSE IF o \in {"and", "or", "xor"} /\ Len(a) # 1 THEN Err
    ELSE CASE o \in {"and", "logand"} -> BvAnd(a, b)
           [] o \in {"or", "logor"} -> BvOr(a, b)
           [] o = "xor" -> BvXor(a, b)
           [] o = "add" -> BvAdd(a, b)
           [] o = "sub" -> BvSub(a, b)
           [] o = "mul" -> BvMul(a, b)
           [] o = "eq" -> BoolBv(a = b)
           [] o = "ult" -> BoolBv(BvUlt(a, b))
           [] o = "ugt" -> BoolBv(BvUlt(b, a))
           [] o = "uge" -> BoolBv(BvUle(b, a))
           [] o = "sgt" -> BoolBv(BvSlt(b, a))
           [] o = "sge" -> BoolBv(BvSle(b, a))

Unary(o, a) ==
    IF IsErr(a) THEN Err
    ELSE CASE o = "lognot" -> BvNot(a)
           [] o = "msb" -> <<BvMsb(a)>>
           [] o = "is_zero" -> BoolBv(BvIsZero(a))
           [] o = "non_zero" -> BoolBv(~BvIsZero(a))

RECURSIVE EvalPure(_, _)
EvalPure(e, s) ==
    CASE e.op = "NULL" -> Err
      [] e.op = "bitv" -> e.bits
      [] e.op = "var" ->
            LET store == IF e.global THEN s.g ELSE s.l
            IN IF e.v \in DOMAIN store THEN store[e.v] ELSE Err
      [] e.op = "ite" ->
            LET c == EvalPure(e.c, s)
            IN IF c = <<1>> THEN EvalPure(e.x, s)
               ELSE IF c = <<0>> THEN EvalPure(e.y, s)
               ELSE Err
      [] e.op = "cast" ->
            LET a == EvalPure(e.x, s)
            IN IF IsErr(a) THEN Err
               ELSE BvCast(a, e.n, IF e.signed THEN BvMsb(a) ELSE 0)
      [] e.op = "loadw" ->
            LET a == EvalPure(e.x, s)
            IN IF IsErr(a) THEN Err
               ELSE LoadBytes(s.m, a, e.n \div BITS_PER_BYTE)
      [] e.op \in {"lognot", "msb", "is_zero", "non_zero"} ->
            Unary(e.op, EvalPure(e.x, s))
      [] OTHER -> Binary(e.op, EvalPure(e.x, s), EvalPure(e.y, s))

Fail(s) == [s EXCEPT !.ok = FALSE]

RECURSIVE ExecEffect(_, _)
ExecEffect(e, s) ==
    IF ~s.ok THEN s
    ELSE CASE e.op = "NULL" -> Fail(s)
           [] e.op = "set" ->
                LET a == EvalPure(e.x, s)
                IN IF IsErr(a) THEN Fail(s)
                   ELSE IF e.global THEN
                       IF e.v \in DOMAIN s.g /\ Len(s.g[e.v]) = Len(a)
                       THEN [s EXCEPT !.g[e.v] = a]
                       ELSE IF unbound = "skip" THEN s
                       ELSE Fail(s)
                   ELSE [s EXCEPT !.l = [n \in DOMAIN s.l \cup {e.v} |->
                                            IF n = e.v THEN a ELSE s.l[n]]]
           [] e.op = "storew" ->
                LET a == EvalPure(e.x, s)
                    v == EvalPure(e.y, s)
                IN IF IsErr(a) \/ IsErr(v) THEN Fail(s)
                   ELSE [s EXCEPT !.m = StoreBytes(s.m, a, v)]
           [] e.op = "seq" -> ExecEffect(e.y, ExecEffect(e.x, s))
           [] e.op = "branch" ->
                LET c == EvalPure(e.c, s)
                IN IF c = <<1>> THEN ExecEffect(e.t, s)
                   ELSE IF c = <<0>> THEN ExecEffect(e.f, s)
                   ELSE Fail(s)

---------------------------------------------------------------------------
(* sh_il.c: registers *)

SH_SR_T == "sr_t"
SH_SR_S == "sr_s"
SH_SR_Q == "sr_q"
SH_SR_M == "sr_m"
SH_SR_F == "sr_f"
SH_SR_B == "sr_b"
SH_SR_R == "sr_r"
SH_SR_D == "sr_d"

\* element i of a C array (C counts from 0)
At(arr, i) == arr[i + 1]

sh_global_registers ==
    << "r0b0", "r1b0", "r2b0", "r3b0", "r4b0", "r5b0", "r6b0", "r7b0",
       "r0b1", "r1b1", "r2b1", "r3b1", "r4b1", "r5b1", "r6b1", "r7b1",
       "r8", "r9", "r10", "r11", "r12", "r13", "r14", "r15", "pc",
       "sr", "gbr", "ssr", "spc", "sgr", "dbr", "vbr", "mach", "macl",
       "pr", "fpul", "fpscr",
       "fr0", "fr1", "fr2", "fr3", "fr4", "fr5", "fr6", "fr7",
       "fr8", "fr9", "fr10", "fr11", "fr12", "fr13", "fr14", "fr15",
       "xf0", "xf1", "xf2", "xf3", "xf4", "xf5", "xf6", "xf7",
       "xf8", "xf9", "xf10", "xf11", "xf12", "xf13", "xf14", "xf15" >>

sh_registers ==
    << "r0", "r1", "r2", "r3", "r4", "r5", "r6", "r7",
       "r8", "r9", "r10", "r11", "r12", "r13", "r14", "r15", "pc",
       "sr", "gbr", "ssr", "spc", "sgr", "dbr", "vbr", "mach", "macl",
       "pr", "fpul", "fpscr",
       "fr0", "fr1", "fr2", "fr3", "fr4", "fr5", "fr6", "fr7",
       "fr8", "fr9", "fr10", "fr11", "fr12", "fr13", "fr14", "fr15",
       "xf0", "xf1", "xf2", "xf3", "xf4", "xf5", "xf6", "xf7",
       "xf8", "xf9", "xf10", "xf11", "xf12", "xf13", "xf14", "xf15" >>

sh_status_bit_registers ==
    << SH_SR_T, SH_SR_S, SH_SR_Q, SH_SR_M, SH_SR_F, SH_SR_B, SH_SR_R, SH_SR_D >>

sh_valid_gpr(reg) == reg < SH_GPR_COUNT

sh_banked_reg(reg) == reg < SH_BANKED_REG_COUNT

\* a bank lookup that forgets the stride of a bank: bank 1 of register i would
\* be the entry after bank 0 of register i, not SH_BANKED_REG_COUNT entries later
sh_get_banked_reg_no_stride(reg, bank) ==
    IF ~sh_banked_reg(reg) \/ bank > 1 THEN "(null)"
    ELSE At(sh_global_registers, reg + bank)

\* the C function returns a NULL name for a register that is not banked
sh_get_banked_reg(reg, bank) ==
    IF ~sh_banked_reg(reg) \/ bank > 1 THEN "(null)"
    ELSE At(sh_global_registers, reg + bank * SH_BANKED_REG_COUNT)

\* a register read that ignores the bank selectors and reads bank 0
sh_il_get_reg_bank0(reg) ==
    IF ~sh_valid_gpr(reg) THEN NULL
    ELSE IF ~sh_banked_reg(reg) THEN VARG(At(sh_registers, reg))
    ELSE VARG(sh_get_banked_reg(reg, 0))

sh_il_get_reg(reg) ==
    IF ~sh_valid_gpr(reg) THEN NULL
    ELSE IF ~sh_banked_reg(reg) THEN VARG(At(sh_registers, reg))
    ELSE LET condition == AND(VARG(SH_SR_D), VARG(SH_SR_R))
         IN ITE(condition, VARG(sh_get_banked_reg(reg, 1)),
                VARG(sh_get_banked_reg(reg, 0)))

\* a register write that selects a value and then stores it: both banks are
\* written, the bank that is not selected with its own content
sh_il_set_reg_value_select(reg, val) ==
    IF ~sh_valid_gpr(reg) THEN NULL
    ELSE IF ~sh_banked_reg(reg) THEN SETG(At(sh_registers, reg), val)
    ELSE SEQ2(SETG(sh_get_banked_reg(reg, 1),
                   ITE(AND(VARG(SH_SR_D), VARG(SH_SR_R)), val,
                       VARG(sh_get_banked_reg(reg, 1)))),
              SETG(sh_get_banked_reg(reg, 0),
                   ITE(AND(VARG(SH_SR_D), VARG(SH_SR_R)),
                       VARG(sh_get_banked_reg(reg, 0)), DUP(val))))

sh_il_set_reg(reg, val) ==
    IF ~sh_valid_gpr(reg) THEN NULL
    ELSE IF ~sh_banked_reg(reg) THEN SETG(At(sh_registers, reg), val)
    ELSE LET condition == AND(VARG(SH_SR_D), VARG(SH_SR_R))
         IN BRANCH(condition, SETG(sh_get_banked_reg(reg, 1), val),
                   SETG(sh_get_banked_reg(reg, 0), DUP(val)))

---------------------------------------------------------------------------
(* sh_il.c: operands *)

\* SHScaling, the index into sh_scaling_size
SH_SCALING_INVALID == 0
SH_SCALING_B == 1
SH_SCALING_W == 2
SH_SCALING_L == 3
SH_SCALING_Q == 4

\* const ut8 sh_scaling_size[] = { -1, 1, 2, 4, 8 }
ScalingSizes == <<255, 1, 2, 4, 8>>

\* sh_scaling_size[i]: an index past the end reads the byte the build placed
\* there
sh_scaling_size(i) ==
    IF i \in 0..4 THEN At(ScalingSizes, i) ELSE oob[i]

\* a constant of width l from a signed C integer
SN(l, n) ==
    [op |-> "bitv",
     bits |-> IF n >= 0 THEN Bits(n, l) ELSE BvSub(BvZero(l), Bits(-n, l))]

SH_S_ADDR(x) == SN(SH_ADDR_SIZE, x)
SH_S_REG(x) == SN(SH_REG_SIZE, x)

sh_il_get_effective_addr(param, scaling) ==
    CASE param.mode \in {"SH_REG_INDIRECT", "SH_REG_INDIRECT_I", "SH_REG_INDIRECT_D"} ->
            sh_il_get_reg(param.param[0])
      [] param.mode = "SH_REG_INDIRECT_DISP" ->
            ADD(sh_il_get_reg(param.param[0]),
                MUL(SH_U_ADDR(param.param[1]), SH_U_ADDR(sh_scaling_size(scaling))))
      [] param.mode = "SH_REG_INDIRECT_INDEXED" ->
            ADD(sh_il_get_reg(param.param[0]), sh_il_get_reg(param.param[1]))
      [] param.mode = "SH_GBR_INDIRECT_DISP" ->
            ADD(VARG("gbr"),
                MUL(SH_U_ADDR(param.param[0]), SH_U_ADDR(sh_scaling_size(scaling))))
      [] param.mode = "SH_GBR_INDIRECT_INDEXED" ->
            ADD(VARG("gbr"), sh_il_get_reg(param.param[0]))
      [] param.mode = "SH_PC_RELATIVE_DISP" ->
            LET pc0 == VARG("pc")
                pc1 == ITE(EQ(SH_U_ADDR(sh_scaling_size(scaling)), SH_U_ADDR(4)),
                           LOGAND(pc0, UNL(SH_ADDR_SIZE, <<65532, 65535>>)),
                           DUP(pc0))
                pc2 == ADD(pc1, SH_U_ADDR(4))
            IN ADD(pc2, MUL(SH_U_ADDR(param.param[0]),
                            SH_U_ADDR(sh_scaling_size(scaling))))
      [] param.mode = "SH_PC_RELATIVE" ->
            LET relative == MUL(SH_S_ADDR(param.param[0]), SH_S_ADDR(2))
            IN ADD(ADD(VARG("pc"), SH_U_ADDR(4)), relative)
      [] param.mode = "SH_PC_RELATIVE_REG" ->
            ADD(ADD(VARG("pc"), SH_U_ADDR(4)), sh_il_get_reg(param.param[0]))
      [] OTHER -> NULL

\* SHParamHelper
Helper(pre0, pure0, post0) == [pre |-> pre0, pure |-> pure0, post |-> post0]

sh_il_get_param(param, scaling) ==
    CASE param.mode = "SH_REG_DIRECT" ->
            Helper(NULL, sh_il_get_reg(param.param[0]), NULL)
      [] param.mode = "SH_REG_INDIRECT" ->
            Helper(NULL, sh_il_get_effective_addr(param, sh_scaling_size(scaling)), NULL)
      [] param.mode = "SH_REG_INDIRECT_I" ->
            Helper(NULL,
                   sh_il_get_effective_addr(param, sh_scaling_size(scaling)),
                   sh_il_set_reg(param.param[0],
                                 ADD(sh_il_get_reg(param.param[0]),
                                     SH_U_ADDR(sh_scaling_size(scaling)))))
      [] param.mode = "SH_REG_INDIRECT_D" ->
            Helper(sh_il_set_reg(param.param[0],
                                 SUB(sh_il_get_reg(param.param[0]),
                                     SH_U_ADDR(sh_scaling_size(scaling)))),
                   sh_il_get_effective_addr(param, sh_scaling_size(scaling)),
                   NULL)
      [] param.mode \in {"SH_REG_INDIRECT_DISP", "SH_REG_INDIRECT_INDEXED",
                         "SH_GBR_INDIRECT_DISP", "SH_GBR_INDIRECT_INDEXED"} ->
            Helper(NULL,
                   LOADW(BITS_PER_BYTE * sh_scaling_size(scaling),
                         sh_il_get_effective_addr(param, sh_scaling_size(scaling))),
                   NULL)
      [] param.mode \in {"SH_PC_RELATIVE_DISP", "SH_PC_RELATIVE", "SH_PC_RELATIVE_REG"} ->
            Helper(NULL, sh_il_get_effective_addr(param, sh_scaling_size(scaling)), NULL)
      [] param.mode = "SH_IMM_U" ->
            Helper(NULL, SH_U_REG(param.param[0]), NULL)
      [] param.mode = "SH_IMM_S" ->
            Helper(NULL, SH_S_REG(param.param[0]), NULL)
      [] OTHER -> Helper(NULL, NULL, NULL)

sh_apply_effects(target, pre0, post0) ==
    IF IsNull(target) THEN
        IF ~IsNull(pre0) THEN
            (IF ~IsNull(post0) THEN SEQ2(pre0, post0) ELSE pre0)
        ELSE IF ~IsNull(post0) THEN post0
        ELSE NULL
    ELSE LET t1 == IF ~IsNull(pre0) THEN SEQ2(pre0, target) ELSE target
         IN IF ~IsNull(post0) THEN SEQ2(t1, post0) ELSE t1

sh_il_set_param(param, val, scaling) ==
    LET ret0 == IF param.mode = "SH_REG_DIRECT"
                THEN sh_il_set_reg(param.param[0], val) ELSE NULL
    IN IF IsNull(ret0) THEN
           LET ret_h == sh_il_get_param(param, sh_scaling_size(scaling))
               ret == STOREW(sh_il_get_effective_addr(param, sh_scaling_size(scaling)), val)
           IN sh_apply_effects(ret, ret_h.pre, ret_h.post)
       ELSE sh_apply_effects(ret0, NULL, NULL)

sh_il_get_pure_param(op, x) == sh_il_get_param(op.param[x], op.scaling).pure

sh_il_set_pure_param(op, x, val) == sh_il_set_param(op.param[x], val, op.scaling)

---------------------------------------------------------------------------
(* sh_il.c: the carry, borrow and overflow predicates *)

\* the constant 1u << 31
Bit31 == UNL(SH_REG_SIZE, <<0, 32768>>)

sh_il_is_add_carry(res, x, y) ==
    LET xy == LOGAND(x, y)
        nres == LOGNOT(res)
        ry == LOGAND(nres, DUP(y))
        xr == LOGAND(DUP(x), nres)
        or0 == LOGOR(xy, ry)
        or1 == LOGOR(or0, xr)
        mask == LOGAND(Bit31, DUP(or1))
    IN NON_ZERO(mask)

sh_il_is_sub_borrow(res, x, y) ==
    LET nx == LOGNOT(x)
        nxy == LOGAND(nx, y)
        rny == LOGAND(DUP(y), res)
        rnx == LOGAND(DUP(res), nx)
        or0 == LOGOR(nxy, rny)
        or1 == LOGOR(or0, rnx)
        mask == LOGAND(Bit31, DUP(or1))
    IN NON_ZERO(mask)

sh_il_is_add_overflow(res, x, y) ==
    LET nrxy == LOGAND(LOGAND(LOGNOT(res), x), y)
        rnxny == LOGAND(LOGAND(DUP(res), LOGNOT(DUP(x))), LOGNOT(DUP(y)))
        or0 == LOGOR(nrxy, rnxny)
        mask == LOGAND(Bit31, or0)
    IN NON_ZERO(mask)

sh_il_is_sub_underflow(res, x, y) ==
    LET nrxny == LOGAND(LOGAND(LOGNOT(res), x), LOGNOT(y))
        rnxy == LOGAND(LOGAND(DUP(res), LOGNOT(DUP(x))), DUP(y))
        or0 == LOGOR(nrxny, rnxy)
        mask == LOGAND(Bit31, or0)
    IN NON_ZERO(mask)

---------------------------------------------------------------------------
(* sh_il.c: the instructions *)

sh_il_unk(op) == NULL

sh_il_mov(op) ==
    LET ret == NULL
        shp == sh_il_get_param(op.param[0], op.scaling)
        \* the C code calls sh_apply_effects(ret, shp.pre, shp.post) here and
        \* drops what it returns
    IN SEQ2(ret, sh_il_set_param(op.param[1], shp.pure, op.scaling))

sh_il_movt(op) == sh_il_set_pure_param(op, 0, UNSIGNED(SH_REG_SIZE, VARG(SH_SR_T)))

sh_il_swap(op) ==
    IF op.scaling = SH_SCALING_B THEN
        LET lower_byte == AND(sh_il_get_pure_param(op, 0), SH_U_REG(255))
            new_lower_byte == AND(SHIFTR0(sh_il_get_pure_param(op, 0), SH_U_REG(BITS_PER_BYTE)),
                                  SH_U_REG(255))
            new_upper_byte == SHIFTL0(lower_byte, SH_U_REG(BITS_PER_BYTE))
            upper_word == LOGAND(sh_il_get_pure_param(op, 0), UNL(SH_REG_SIZE, <<0, 65535>>))
        IN sh_il_set_pure_param(op, 1, LOGOR(upper_word, LOGOR(new_upper_byte, new_lower_byte)))
    ELSE IF op.scaling = SH_SCALING_W THEN
        LET high == SHIFTL0(sh_il_get_pure_param(op, 0), SH_U_REG(BITS_PER_BYTE * 2))
            low == SHIFTR0(sh_il_get_pure_param(op, 0), SH_U_REG(BITS_PER_BYTE * 2))
        IN sh_il_set_pure_param(op, 1, LOGOR(high, low))
    ELSE NULL

sh_il_xtrct(op) ==
    LET high == SHIFTL0(sh_il_get_pure_param(op, 0), SH_U_REG(BITS_PER_BYTE * 2))
        low == SHIFTR0(sh_il_get_pure_param(op, 1), SH_U_REG(BITS_PER_BYTE * 2))
    IN sh_il_set_pure_param(op, 1, LOGOR(high, low))

sh_il_add(op) ==
    sh_il_set_pure_param(op, 1, ADD(sh_il_get_pure_param(op, 0), sh_il_get_pure_param(op, 1)))

sh_il_addc(op) ==
    LET sum0 == ADD(sh_il_get_pure_param(op, 0), sh_il_get_pure_param(op, 1))
        sum == ADD(sum0, UNSIGNED(SH_REG_SIZE, VARG(SH_SR_T)))
        ret == sh_il_set_pure_param(op, 1, sum)
        tbit == SETG(SH_SR_T, sh_il_is_add_carry(DUP(sum), sh_il_get_pure_param(op, 0),
                                                sh_il_get_pure_param(op, 1)))
    IN SEQ2(ret, tbit)

sh_il_addv(op) ==
    LET sum == ADD(sh_il_get_pure_param(op, 0), sh_il_get_pure_param(op, 1))
        ret == sh_il_set_pure_param(op, 1, sum)
        tbit == SETG(SH_SR_T, sh_il_is_add_overflow(DUP(sum), sh_il_get_pure_param(op, 0),
                                                   sh_il_get_pure_param(op, 1)))
    IN SEQ2(ret, tbit)

sh_il_cmp_eq(op) ==
    SETG(SH_SR_T, EQ(sh_il_get_pure_param(op, 0), sh_il_get_pure_param(op, 1)))

sh_il_cmp_hs(op) ==
    SETG(SH_SR_T, UGE(sh_il_get_pure_param(op, 1), sh_il_get_pure_param(op, 0)))

sh_il_cmp_ge(op) ==
    SETG(SH_SR_T, SGE(sh_il_get_pure_param(op, 1), sh_il_get_pure_param(op, 0)))

sh_il_cmp_hi(op) ==
    SETG(SH_SR_T, UGT(sh_il_get_pure_param(op, 1), sh_il_get_pure_param(op, 0)))

sh_il_cmp_gt(op) ==
    SETG(SH_SR_T, SGT(sh_il_get_pure_param(op, 1), sh_il_get_pure_param(op, 0)))

sh_il_cmp_pz(op) == SETG(SH_SR_T, SGE(sh_il_get_pure_param(op, 0), SH_S_REG(0)))

sh_il_cmp_pl(op) == SETG(SH_SR_T, SGT(sh_il_get_pure_param(op, 0), SH_S_REG(0)))

sh_il_cmp_str(op) ==
    LET xor0 == XOR(sh_il_get_pure_param(op, 0), sh_il_get_pure_param(op, 1))
        eq0 == EQ(LOGAND(xor0, SH_U_REG(255)), SH_U_REG(0))
        xor1 == SHIFTR0(DUP(xor0), SH_U_REG(BITS_PER_BYTE))
        eq1 == OR(eq0, EQ(LOGAND(xor1, SH_U_REG(255)), SH_U_REG(0)))
        xor2 == SHIFTR0(DUP(xor1), SH_U_REG(BITS_PER_BYTE))
        eq2 == OR(eq1, EQ(LOGAND(xor2, SH_U_REG(255)), SH_U_REG(0)))
        xor3 == SHIFTR0(DUP(xor2), SH_U_REG(BITS_PER_BYTE))
        eq3 == OR(eq2, EQ(LOGAND(xor3, SH_U_REG(255)), SH_U_REG(0)))
    IN SETG(SH_SR_T, eq3)

\* DIV1: the old Q is kept, Q takes the top bit of Rn, Rn is shifted left and
\* T is put into its low bit
div1_init(op) ==
    SEQ4(SETL("old_q", VARG(SH_SR_Q)),
         SETG(SH_SR_Q, MSB(sh_il_get_pure_param(op, 1))),
         sh_il_set_pure_param(op, 1, SHIFTL0(sh_il_get_pure_param(op, 1), SH_U_REG(1))),
         sh_il_set_pure_param(op, 1, OR(sh_il_get_pure_param(op, 1),
                                        UNSIGNED(SH_REG_SIZE, VARG(SH_SR_T)))))

\* DIV1, old Q = 0 and M = 0: subtract
div1_q0m0(op) ==
    SEQ4(SETL("tmp0", sh_il_get_pure_param(op, 1)),
         sh_il_set_pure_param(op, 1, SUB(sh_il_get_pure_param(op, 1),
                                         sh_il_get_pure_param(op, 0))),
         SETL("tmp1", UGT(sh_il_get_pure_param(op, 1), VARL("tmp0"))),
         BRANCH(VARG(SH_SR_Q), SETG(SH_SR_Q, IS_ZERO(VARL("tmp1"))),
                SETG(SH_SR_Q, VARL("tmp1"))))

\* DIV1, old Q = 0 and M = 1: add
div1_q0m1(op) ==
    SEQ4(SETL("tmp0", sh_il_get_pure_param(op, 1)),
         sh_il_set_pure_param(op, 1, ADD(sh_il_get_pure_param(op, 1),
                                         sh_il_get_pure_param(op, 0))),
         SETL("tmp1", ULT(sh_il_get_pure_param(op, 1), VARL("tmp0"))),
         BRANCH(VARG(SH_SR_Q), SETG(SH_SR_Q, VARL("tmp1")),
                SETG(SH_SR_Q, IS_ZERO(VARL("tmp1")))))

\* DIV1, old Q = 1 and M = 0: add
div1_q1m0(op) ==
    SEQ4(SETL("tmp0", sh_il_get_pure_param(op, 1)),
         sh_il_set_pure_param(op, 1, ADD(sh_il_get_pure_param(op, 1),
                                         sh_il_get_pure_param(op, 0))),
         SETL("tmp1", ULT(sh_il_get_pure_param(op, 1), VARL("tmp0"))),
         BRANCH(VARG(SH_SR_Q), SETG(SH_SR_Q, IS_ZERO(VARL("tmp1"))),
                SETG(SH_SR_Q, VARL("tmp1"))))

\* DIV1, old Q = 1 and M = 1: subtract
div1_q1m1(op) ==
    SEQ4(SETL("tmp0", sh_il_get_pure_param(op, 1)),
         sh_il_set_pure_param(op, 1, SUB(sh_il_get_pure_param(op, 1),
                                         sh_il_get_pure_param(op, 0))),
         SETL("tmp1", UGT(sh_il_get_pure_param(op, 1), VARL("tmp0"))),
         BRANCH(VARG(SH_SR_Q), SETG(SH_SR_Q, VARL("tmp1")),
                SETG(SH_SR_Q, IS_ZERO(VARL("tmp1")))))

sh_il_div1(op) ==
    SEQ3(div1_init(op),
         BRANCH(VARL("old_q"),
                BRANCH(VARG(SH_SR_M), div1_q1m1(op), div1_q1m0(op)),
                BRANCH(VARG(SH_SR_M), div1_q0m1(op), div1_q0m0(op))),
         SETG(SH_SR_T, EQ(VARG(SH_SR_Q), VARG(SH_SR_M))))

sh_il_div0s(op) ==
    LET setm == SETG(SH_SR_M, MSB(sh_il_get_pure_param(op, 0)))
        setq == SETG(SH_SR_Q, MSB(sh_il_get_pure_param(op, 1)))
        sett == SETG(SH_SR_T, XOR(MSB(sh_il_get_pure_param(op, 0)),
                                  MSB(sh_il_get_pure_param(op, 1))))
    IN SEQ3(setm, setq, sett)

sh_il_div0u(op) ==
    SEQ3(SETG(SH_SR_M, SH_BIT(0)), SETG(SH_SR_Q, SH_BIT(0)), SETG(SH_SR_T, SH_BIT(0)))

\* the constant 0xffffffff of width 64
Low32Mask == UNL(2 * SH_REG_SIZE, <<65535, 65535>>)

\* DMULS.L with its operands zero-extended to 64 bits
sh_il_dmuls_zero_extended(op) ==
    LET eff == SETL("res_wide", MUL(UNSIGNED(2 * SH_REG_SIZE, sh_il_get_pure_param(op, 0)),
                                    UNSIGNED(2 * SH_REG_SIZE, sh_il_get_pure_param(op, 1))))
        lower_bits == UNSIGNED(SH_REG_SIZE, LOGAND(VARL("res_wide"), Low32Mask))
        higher_bits == UNSIGNED(SH_REG_SIZE, SHIFTR0(VARL("res_wide"), SH_U_REG(SH_REG_SIZE)))
    IN SEQ3(eff, SETG("macl", lower_bits), SETG("mach", higher_bits))

sh_il_dmuls(op) ==
    LET eff == SETL("res_wide", MUL(SIGNED(2 * SH_REG_SIZE, sh_il_get_pure_param(op, 0)),
                                    SIGNED(2 * SH_REG_SIZE, sh_il_get_pure_param(op, 1))))
        lower_bits == UNSIGNED(SH_REG_SIZE, LOGAND(VARL("res_wide"), Low32Mask))
        higher_bits == UNSIGNED(SH_REG_SIZE, SHIFTR0(VARL("res_wide"), SH_U_REG(SH_REG_SIZE)))
    IN SEQ3(eff, SETG("macl", lower_bits), SETG("mach", higher_bits))

sh_il_dmulu(op) ==
    LET eff == SETL("res_wide", MUL(UNSIGNED(2 * SH_REG_SIZE, sh_il_get_pure_param(op, 0)),
                                    UNSIGNED(2 * SH_REG_SIZE, sh_il_get_pure_param(op, 1))))
        lower_bits == UNSIGNED(SH_REG_SIZE, LOGAND(VARL("res_wide"), Low32Mask))
        higher_bits == UNSIGNED(SH_REG_SIZE, SHIFTR0(VARL("res_wide"), SH_U_REG(SH_REG_SIZE)))
    IN SEQ3(eff, SETG("macl", lower_bits), SETG("mach", higher_bits))

sh_il_dt(op) ==
    SEQ2(sh_il_set_pure_param(op, 0, SUB(sh_il_get_pure_param(op, 0), SH_U_REG(1))),
         SETG(SH_SR_T, NON_ZERO(sh_il_get_pure_param(op, 0))))

sh_il_exts(op) ==
    IF op.scaling = SH_SCALING_B THEN
        LET byte == LOGAND(sh_il_get_pure_param(op, 0), SH_U_REG(255))
            msb == MSB(byte)
        IN BRANCH(msb,
                  sh_il_set_pure_param(op, 1, LOGOR(DUP(byte), UNL(SH_REG_SIZE, <<65280, 65535>>))),
                  sh_il_set_pure_param(op, 1, DUP(byte)))
    ELSE IF op.scaling = SH_SCALING_W THEN
        LET word == LOGAND(sh_il_get_pure_param(op, 0), SH_U_REG(65535))
            msb == MSB(word)
        IN BRANCH(msb,
                  sh_il_set_pure_param(op, 1, LOGOR(DUP(word), UNL(SH_REG_SIZE, <<0, 65535>>))),
                  sh_il_set_pure_param(op, 1, DUP(word)))
    ELSE NULL

sh_il_extu(op) ==
    IF op.scaling = SH_SCALING_B THEN
        sh_il_set_pure_param(op, 1, LOGAND(sh_il_get_pure_param(op, 0), SH_U_REG(255)))
    ELSE IF op.scaling = SH_SCALING_W THEN
        sh_il_set_pure_param(op, 1, LOGAND(sh_il_get_pure_param(op, 0), SH_U_REG(65535)))
    ELSE NULL

\* SETL("mac", mach:macl), the first effect of both forms of MAC
MacLoad ==
    SETL("mac", LOGOR(SHIFTL0(UNSIGNED(2 * SH_REG_SIZE, VARG("mach")), SH_U_REG(SH_REG_SIZE)),
                      UNSIGNED(2 * SH_REG_SIZE, VARG("macl"))))

sh_il_mac(op) ==
    LET shp_rm == sh_il_get_param(op.param[0], op.scaling)
        shp_rn == sh_il_get_param(op.param[1], op.scaling)
        eff ==
          IF op.scaling = SH_SCALING_L THEN
            LET mac == MacLoad
                mul == MUL(SIGNED(2 * SH_REG_SIZE, shp_rm.pure),
                           SIGNED(2 * SH_REG_SIZE, shp_rn.pure))
                add == ADD(mul, VARL("mac"))
                low == UNSIGNED(48, LOGAND(add, UNL(2 * SH_REG_SIZE, <<65535, 65535, 65535>>)))
                sat == SIGNED(2 * SH_REG_SIZE, low)
                eff0 == SEQ2(mac, BRANCH(VARG(SH_SR_S), SETL("mac", sat),
                                         SETG("mac", DUP(add))))
                lower_bits == UNSIGNED(SH_REG_SIZE, LOGAND(VARL("mac"), Low32Mask))
                higher_bits == UNSIGNED(SH_REG_SIZE,
                                        SHIFTR0(VARL("mac"), SH_U_REG(SH_REG_SIZE)))
            IN SEQ3(eff0, SETG("macl", lower_bits), SETG("mach", higher_bits))
          ELSE IF op.scaling = SH_SCALING_W THEN
            LET mac == MacLoad
                mul == UNSIGNED(2 * SH_REG_SIZE,
                                MUL(SIGNED(SH_REG_SIZE, shp_rm.pure),
                                    SIGNED(SH_REG_SIZE, shp_rn.pure)))
                add == ADD(mul, VARG("mac"))
                sat_add == ADD(UNSIGNED(SH_REG_SIZE, DUP(mul)), VARG("macl"))
                lower_bits == UNSIGNED(SH_REG_SIZE, LOGAND(add, Low32Mask))
                higher_bits == UNSIGNED(SH_REG_SIZE, SHIFTR0(DUP(add), SH_U_REG(SH_REG_SIZE)))
            IN SEQ2(mac, BRANCH(VARG(SH_SR_S), SETG("macl", sat_add),
                                SEQ2(SETG("macl", lower_bits), SETG("mach", higher_bits))))
          ELSE NULL
    IN SEQ3(eff, shp_rn.post, shp_rm.post)

sh_il_mul(op) == SETG("macl", MUL(sh_il_get_pure_param(op, 0), sh_il_get_pure_param(op, 1)))

sh_il_muls(op) ==
    LET m == SIGNED(SH_REG_SIZE, SIGNED(16, sh_il_get_pure_param(op, 0)))
        n == SIGNED(SH_REG_SIZE, SIGNED(16, sh_il_get_pure_param(op, 1)))
    IN SETG("macl", MUL(m, n))

sh_il_mulu(op) ==
    LET m == UNSIGNED(SH_REG_SIZE, UNSIGNED(16, sh_il_get_pure_param(op, 0)))
        n == UNSIGNED(SH_REG_SIZE, UNSIGNED(16, sh_il_get_pure_param(op, 1)))
    IN SETG("macl", MUL(m, n))

\* UNSIGNED(SH_REG_SIZE, 0) in the C code: the second argument is an
\* expression pointer, and 0 is the null pointer
sh_il_neg(op) ==
    LET sub == SUB(UNSIGNED(SH_REG_SIZE, NULL), sh_il_get_pure_param(op, 0))
    IN sh_il_set_pure_param(op, 1, sub)

sh_il_negc(op) ==
    LET sub0 == SUB(UNSIGNED(SH_REG_SIZE, NULL), sh_il_get_pure_param(op, 0))
        sub == SUB(sub0, UNSIGNED(SH_REG_SIZE, VARG(SH_SR_T)))
    IN SEQ2(sh_il_set_pure_param(op, 1, sub),
            SETG(SH_SR_T, sh_il_is_sub_borrow(sub, UNSIGNED(SH_REG_SIZE, NULL),
                                              sh_il_get_pure_param(op, 0))))

sh_il_sub(op) ==
    sh_il_set_pure_param(op, 1, SUB(sh_il_get_pure_param(op, 0), sh_il_get_pure_param(op, 1)))

sh_il_subc(op) ==
    LET dif0 == ADD(sh_il_get_pure_param(op, 0), sh_il_get_pure_param(op, 1))
        dif == SUB(dif0, UNSIGNED(SH_REG_SIZE, VARG(SH_SR_T)))
        ret == sh_il_set_pure_param(op, 1, dif)
        tbit == SETG(SH_SR_T, sh_il_is_sub_borrow(DUP(dif), sh_il_get_pure_param(op, 0),
                                                 sh_il_get_pure_param(op, 1)))
    IN SEQ2(ret, tbit)

sh_il_subv(op) ==
    LET dif == SUB(sh_il_get_pure_param(op, 0), sh_il_get_pure_param(op, 1))
        ret == sh_il_set_pure_param(op, 1, dif)
        tbit == SETG(SH_SR_T, sh_il_is_sub_underflow(DUP(dif), sh_il_get_pure_param(op, 0),
                                                    sh_il_get_pure_param(op, 1)))
    IN SEQ2(ret, tbit)

sh_il_and(op) ==
    sh_il_set_param(op.param[1],
                    LOGAND(sh_il_get_param(op.param[0], op.scaling).pure,
                           sh_il_get_param(op.param[1], op.scaling).pure),
                    op.scaling)

sh_il_not(op) == sh_il_set_pure_param(op, 1, LOGNOT(sh_il_get_pure_param(op, 0)))

sh_il_or(op) ==
    sh_il_set_param(op.param[1],
                    LOGOR(sh_il_get_param(op.param[0], op.scaling).pure,
                          sh_il_get_param(op.param[1], op.scaling).pure),
                    op.scaling)

\* the dispatch table
sh_ops(op) ==
    CASE op.mnemonic = "SH_OP_MOV" -> sh_il_mov(op)
      [] op.mnemonic = "SH_OP_MOVT" -> sh_il_movt(op)
      [] op.mnemonic = "SH_OP_SWAP" -> sh_il_swap(op)
      [] op.mnemonic = "SH_OP_XTRCT" -> sh_il_xtrct(op)
      [] op.mnemonic = "SH_OP_ADD" -> sh_il_add(op)
      [] op.mnemonic = "SH_OP_ADDC" -> sh_il_addc(op)
      [] op.mnemonic = "SH_OP_ADDV" -> sh_il_addv(op)
      [] op.mnemonic = "SH_OP_CMP_EQ" -> sh_il_cmp_eq(op)
      [] op.mnemonic = "SH_OP_CMP_HS" -> sh_il_cmp_hs(op)
      [] op.mnemonic = "SH_OP_CMP_GE" -> sh_il_cmp_ge(op)
      [] op.mnemonic = "SH_OP_CMP_HI" -> sh_il_cmp_hi(op)
      [] op.mnemonic = "SH_OP_CMP_GT" -> sh_il_cmp_gt(op)
      [] op.mnemonic = "SH_OP_CMP_PZ" -> sh_il_cmp_pz(op)
      [] op.mnemonic = "SH_OP_CMP_PL" -> sh_il_cmp_pl(op)
      [] op.mnemonic = "SH_OP_CMP_STR" -> sh_il_cmp_str(op)
      [] op.mnemonic = "SH_OP_DIV1" -> sh_il_div1(op)
      [] op.mnemonic = "SH_OP_DIV0S" -> sh_il_div0s(op)
      [] op.mnemonic = "SH_OP_DIV0U" -> sh_il_div0u(op)
      [] op.mnemonic = "SH_OP_DMULS" -> sh_il_dmuls(op)
      [] op.mnemonic = "SH_OP_DMULU" -> sh_il_dmulu(op)
      [] op.mnemonic = "SH_OP_DT" -> sh_il_dt(op)
      [] op.mnemonic = "SH_OP_EXTS" -> sh_il_exts(op)
      [] op.mnemonic = "SH_OP_EXTU" -> sh_il_extu(op)
      [] op.mnemonic = "SH_OP_MAC" -> sh_il_mac(op)
      [] op.mnemonic = "SH_OP_MUL" -> sh_il_mul(op)
      [] op.mnemonic = "SH_OP_MULS" -> sh_il_muls(op)
      [] op.mnemonic = "SH_OP_MULU" -> sh_il_mulu(op)
      [] op.mnemonic = "SH_OP_NEG" -> sh_il_neg(op)
      [] op.mnemonic = "SH_OP_NEGC" -> sh_il_negc(op)
      [] op.mnemonic = "SH_OP_SUB" -> sh_il_sub(op)
      [] op.mnemonic = "SH_OP_SUBC" -> sh_il_subc(op)
      [] op.mnemonic = "SH_OP_SUBV" -> sh_il_subv(op)
      [] op.mnemonic = "SH_OP_AND" -> sh_il_and(op)
      [] op.mnemonic = "SH_OP_NOT" -> sh_il_not(op)
      [] op.mnemonic = "SH_OP_OR" -> sh_il_or(op)
      [] OTHER -> sh_il_unk(op)

---------------------------------------------------------------------------
(* The machine and its inputs *)

\* how many of the values of ValueList the registers are drawn from
NumVals == 7

\* 0, 1, 0xFFFFFFFF, 0x7FFFFFFF, 0x80000000, 0x7F, 0xFF, 0x8000
ValueList ==
    << Limbs(<<0, 0>>, 32), Limbs(<<1, 0>>, 32), Limbs(<<65535, 65535>>, 32),
       Limbs(<<65535, 32767>>, 32), Limbs(<<0, 32768>>, 32), Limbs(<<127, 0>>, 32),
       Limbs(<<255, 0>>, 32), Limbs(<<32768, 0>>, 32) >>

Vals == {ValueList[i] : i \in 1..NumVals}

\* the values of the 64-bit accumulator mach:macl, as <<mach, macl>>:
\* 5, 2^47 - 1, -2^47, 2^63 - 1
MacVals ==
    { <<Limbs(<<0, 0>>, 32), Limbs(<<5, 0>>, 32)>>,
      <<Limbs(<<32767, 0>>, 32), Limbs(<<65535, 65535>>, 32)>>,
      <<Limbs(<<32768, 65535>>, 32), Limbs(<<0, 0>>, 32)>>,
      <<Limbs(<<65535, 32767>>, 32), Limbs(<<65535, 65535>>, 32)>> }

GlobalNames ==
    {sh_global_registers[i] : i \in 1..Len(sh_global_registers)}
    \cup {sh_status_bit_registers[i] : i \in 1..Len(sh_status_bit_registers)}

FlagNames == {sh_status_bit_registers[i] : i \in 1..Len(sh_status_bit_registers)}

\* the position of a register in sh_global_registers
RegIndex(name) == CHOOSE i \in 1..Len(sh_global_registers) : sh_global_registers[i] = name

\* every register starts with a value of its own, not a multiple of 4:
\* 0x1002 + 16 * index
DefaultReg(name) == Bits(4098 + 16 * RegIndex(name), SH_REG_SIZE)

\* the two general registers the instructions of this model operate on: one
\* banked, one not
RegBanked == 3
RegPlain == 9

\* the bank-0 storage of RegBanked and the storage of RegPlain
NameBanked0 == At(sh_global_registers, RegBanked)
NamePlain == At(sh_registers, RegPlain)

\* memory holds the bytes 1, 2, ..., 12 at the addresses 0, 1, ..., 11
InitMem == [a \in {Bits(k, SH_ADDR_SIZE) : k \in 0..11} |->
               Bits(1 + BvAmount(a, 255), BITS_PER_BYTE)]

\* the operand values of the division steps: 0, 1, 0xFFFFFFFF, 0x7FFFFFFF,
\* 0x80000000
DivVals == {ValueList[1], ValueList[2], ValueList[3], ValueList[4], ValueList[5]}

Inputs ==
    \* arithmetic: two operand values, T, and the bank selectors
    { [a |-> a, b |-> b, t |-> t, s |-> 0, q |-> 0, m |-> 0, d |-> d, r |-> r,
       mac |-> <<DefaultReg("mach"), DefaultReg("macl")>>, unbound |-> "abort"]
        : a \in Vals, b \in Vals, t \in 0..1, d \in 0..1, r \in 0..1 }
    \cup
    \* division steps: two operand values, T, Q and M
    { [a |-> a, b |-> b, t |-> t, s |-> 0, q |-> q, m |-> m, d |-> 0, r |-> 0,
       mac |-> <<DefaultReg("mach"), DefaultReg("macl")>>, unbound |-> "abort"]
        : a \in DivVals, b \in DivVals, t \in 0..1, q \in 0..1, m \in 0..1 }
    \cup
    \* multiply and accumulate: small operands, S, and the accumulator
    { [a |-> ab[1], b |-> ab[2], t |-> 0, s |-> s, q |-> 0, m |-> 0, d |-> 0, r |-> 0,
       mac |-> mac, unbound |-> u]
        : ab \in {<<ValueList[1], ValueList[2]>>, <<ValueList[2], ValueList[2]>>,
                  <<ValueList[3], ValueList[2]>>, <<ValueList[3], ValueList[3]>>},
          s \in 0..1, mac \in MacVals, u \in {"abort", "skip"} }

Machine(i) ==
    [g |-> [n \in GlobalNames |->
               CASE n = SH_SR_T -> <<i.t>>
                 [] n = SH_SR_S -> <<i.s>>
                 [] n = SH_SR_Q -> <<i.q>>
                 [] n = SH_SR_M -> <<i.m>>
                 [] n = SH_SR_D -> <<i.d>>
                 [] n = SH_SR_R -> <<i.r>>
                 [] n \in {SH_SR_F, SH_SR_B} -> <<0>>
                 [] n = NameBanked0 -> i.a
                 [] n = NamePlain -> i.b
                 [] n = "mach" -> i.mac[1]
                 [] n = "macl" -> i.mac[2]
                 [] OTHER -> DefaultReg(n)],
     l |-> <<>>,
     m |-> InitMem,
     ok |-> TRUE]

NoInsn == [mnemonic |-> "none"]

\* what lies behind sh_scaling_size is not fixed by the source: a build may
\* place any byte at any index. oob holds the bytes at the indexes that the
\* instruction lifted from this state reads, and NoBytes is the table of an
\* instruction that reads none
Byte == 0..255

NoBytes == <<>>

\* the lifting reads exactly the bytes oob holds
Reads(indexes) == DOMAIN oob = indexes

\* a NULL char pointer
NoString == "(null)"

\* a store as sdb_new leaves it: no dump open (fdump = -1, ndump = NULL)
FreshSdb(dir, name, fd) ==
    [dir |-> dir, name |-> name, fd |-> fd, fdump |-> -1, ndump |-> NoString,
     m |-> [fd |-> -1, n |-> 0]]

\* the machine of input i, before an instruction that reads the bytes of table
Start(i, table) ==
    /\ pc = "ready"
    /\ insn = NoInsn
    /\ lifted = FALSE
    /\ vm = Machine(i)
    /\ pre = Machine(i)
    /\ oob = table
    /\ unbound = i.unbound
    /\ sdb = FreshSdb(NoString, NoString, -1)
    /\ fds = {}
    /\ log = <<>>

Init == \E i \in Inputs : Start(i, NoBytes)

---------------------------------------------------------------------------
(* Lifting and executing one instruction *)

NoParam == [mode |-> "SH_ADDR_INVALID", param |-> (0 :> 0 @@ 1 :> 0)]

Param(mode, p0, p1) == [mode |-> mode, param |-> (0 :> p0 @@ 1 :> p1)]

Reg(r) == Param("SH_REG_DIRECT", r, 0)

SHOp(mnemonic, p0, p1, scaling) ==
    [mnemonic |-> mnemonic, param |-> (0 :> p0 @@ 1 :> p1), scaling |-> scaling]

\* the effect, when there is one, is executed on the machine
Execute(eff, s) == IF IsNull(eff) THEN s ELSE ExecEffect(eff, s)

\* the effect eff lifted for op is executed
Step(eff, op) ==
    /\ pc' = "done"
    /\ insn' = op
    /\ lifted' = ~IsNull(eff)
    /\ pre' = vm
    /\ vm' = Execute(eff, vm)
    /\ UNCHANGED <<oob, unbound, sdb, fds, log>>

\* an instruction whose lifting reads nothing past the end of sh_scaling_size
Run(eff, op) == Reads({}) /\ Step(eff, op)

\* the (Rm, Rn) pairs of the two-operand instructions
RegPairs == {<<RegBanked, RegPlain>>, <<RegPlain, RegBanked>>}

\* the two-register form of an instruction, on every pair of RegPairs
RegRegOps(mnemonic, scalings) ==
    {SHOp(mnemonic, Reg(p[1]), Reg(p[2]), sc) : p \in RegPairs, sc \in scalings}

\* the instructions of this model, by handler
AddvOps == RegRegOps("SH_OP_ADDV", {SH_SCALING_L})

AddcOps == RegRegOps("SH_OP_ADDC", {SH_SCALING_L})

SubOps == RegRegOps("SH_OP_SUB", {SH_SCALING_L})

SubcOps == RegRegOps("SH_OP_SUBC", {SH_SCALING_L})

DtOps == {SHOp("SH_OP_DT", Reg(r), NoParam, SH_SCALING_L) : r \in {RegBanked, RegPlain}}

ExtsOps == RegRegOps("SH_OP_EXTS", {SH_SCALING_B, SH_SCALING_W})

\* MAC.L @Rm+, @Rn+
MacOps ==
    {SHOp("SH_OP_MAC", Param("SH_REG_INDIRECT_I", p[1], 0),
          Param("SH_REG_INDIRECT_I", p[2], 0), SH_SCALING_L) : p \in RegPairs}

\* MOV.L Rm, Rn; MOV.L @Rm, Rn; MOV.L @Rm+, Rn; MOV.L @-Rm, Rn
MovModes == {"SH_REG_DIRECT", "SH_REG_INDIRECT", "SH_REG_INDIRECT_I", "SH_REG_INDIRECT_D"}

MovOps ==
    {SHOp("SH_OP_MOV", Param(mode, p[1], 0), Reg(p[2]), SH_SCALING_L) :
        p \in RegPairs, mode \in MovModes}

\* the writes of sh_il_set_reg on its own: a register index and a constant
SetRegOps ==
    {[mnemonic |-> "set_reg", reg |-> reg, val |-> v] :
        reg \in 0..(SH_GPR_COUNT - 1), v \in {ValueList[2], ValueList[3]}}

\* the operands sh_il_get_param and sh_il_set_param are applied to on their
\* own: every addressing mode, with displacement 3 where there is one
BaseParams ==
    {Param(mode, r, 0) :
        mode \in {"SH_REG_INDIRECT_I", "SH_REG_INDIRECT_D"}, r \in {RegBanked, RegPlain}}

AddrParams ==
    BaseParams
    \cup {Param(mode, RegBanked, 0) :
            mode \in {"SH_REG_INDIRECT", "SH_GBR_INDIRECT_INDEXED", "SH_PC_RELATIVE_REG"}}
    \cup {Param("SH_REG_INDIRECT_DISP", RegBanked, 3),
          Param("SH_REG_INDIRECT_INDEXED", RegBanked, RegPlain),
          Param("SH_GBR_INDIRECT_DISP", 3, 0),
          Param("SH_PC_RELATIVE_DISP", 3, 0),
          Param("SH_PC_RELATIVE", 3, 0)}

ImmParams == {Param(mode, 5, 0) : mode \in {"SH_IMM_U", "SH_IMM_S"}}

Scalings == {SH_SCALING_B, SH_SCALING_W, SH_SCALING_L}

GetParamOps ==
    {SHOp("get_param", p, NoParam, sc) : p \in AddrParams \cup ImmParams, sc \in Scalings}

\* the values stored through sh_il_set_param: 0xFFFFFFFF and 0x7FFFFFFF
StoreVals == {ValueList[3], ValueList[4]}

SetParamOps ==
    {[mnemonic |-> "set_param", param |-> (0 :> p @@ 1 :> NoParam), scaling |-> sc,
      val |-> ValueList[3]] :
        p \in AddrParams, sc \in Scalings}
    \cup
    {[mnemonic |-> "set_param", param |-> (0 :> p @@ 1 :> NoParam), scaling |-> sc,
      val |-> v] :
        p \in ImmParams, sc \in Scalings, v \in StoreVals}

\* the local variable the operand read by GetParam is assigned to
Operand == "operand"

\* an operand is read as the lifting functions read it: its pre-effect, an
\* assignment of its value, its post-effect, composed by sh_apply_effects
ReadParam(h) == sh_apply_effects(SETL(Operand, h.pure), h.pre, h.post)

GetParam ==
    \E op \in GetParamOps :
        pc = "ready" /\ Run(ReadParam(sh_il_get_param(op.param[0], op.scaling)), op)

\* the indexes past the end of sh_scaling_size that sh_il_set_param reads for
\* a scaling of Scalings: it hands sh_scaling_size[scaling] to
\* sh_il_get_param, which hands sh_scaling_size of that to
\* sh_il_get_effective_addr, which for a displacement operand indexes the
\* array once more (index 8 for a longword)
PastReads(param, scaling) ==
    LET index == At(ScalingSizes, At(ScalingSizes, scaling))
    IN IF param.mode \in {"SH_REG_INDIRECT_DISP", "SH_GBR_INDIRECT_DISP",
                          "SH_PC_RELATIVE_DISP"} /\ index \notin 0..4
       THEN {index} ELSE {}

\* every index past the end that a write of SetParamOps reads
PastIndexes == UNION {PastReads(op.param[0], op.scaling) : op \in SetParamOps}

SetParam ==
    \E op \in SetParamOps :
        /\ pc = "ready"
        /\ Reads(PastReads(op.param[0], op.scaling))
        /\ Step(sh_il_set_param(op.param[0], [op |-> "bitv", bits |-> op.val],
                                op.scaling), op)

\* ADD, AND and NOT with a register or an immediate as source and as
\* destination
AluSources == {Reg(RegBanked), Param("SH_IMM_S", 5, 0)}

AluDests == {Reg(RegPlain)} \cup ImmParams

AddOps ==
    {SHOp("SH_OP_ADD", p0, p1, sc) :
        p0 \in AluSources, p1 \in AluDests, sc \in {SH_SCALING_B, SH_SCALING_L}}

AndOps ==
    {SHOp("SH_OP_AND", p0, p1, sc) :
        p0 \in AluSources, p1 \in AluDests, sc \in {SH_SCALING_B, SH_SCALING_L}}

NotOps ==
    {SHOp("SH_OP_NOT", p0, p1, sc) :
        p0 \in AluSources, p1 \in AluDests, sc \in {SH_SCALING_B, SH_SCALING_L}}

Add == \E op \in AddOps : pc = "ready" /\ Run(sh_il_add(op), op)

And == \E op \in AndOps : pc = "ready" /\ Run(sh_il_and(op), op)

Not == \E op \in NotOps : pc = "ready" /\ Run(sh_il_not(op), op)

Div1Ops == RegRegOps("SH_OP_DIV1", {SH_SCALING_L})

Div1 == \E op \in Div1Ops : pc = "ready" /\ Run(sh_il_div1(op), op)

\* DIV1 with an immediate as destination
Div1ImmOps == {SHOp("SH_OP_DIV1", Reg(RegBanked), p1, SH_SCALING_L) : p1 \in ImmParams}

Div1Imm == \E op \in Div1ImmOps : pc = "ready" /\ Run(sh_il_div1(op), op)

\* a register written back with the value just read from it
WriteBackOps == {[mnemonic |-> "write_back", reg |-> reg] : reg \in 0..(SH_GPR_COUNT - 1)}

WriteBack ==
    \E op \in WriteBackOps :
        pc = "ready" /\ Run(sh_il_set_reg(op.reg, sh_il_get_reg(op.reg)), op)

\* NEGC Rm, Rn on the pairs of RegPairs and with Rm = Rn
NegcOps ==
    RegRegOps("SH_OP_NEGC", {SH_SCALING_L})
    \cup {SHOp("SH_OP_NEGC", Reg(r), Reg(r), SH_SCALING_L) : r \in {RegBanked, RegPlain}}

Negc == \E op \in NegcOps : pc = "ready" /\ Run(sh_il_negc(op), op)

DmulsOps == RegRegOps("SH_OP_DMULS", {SH_SCALING_L})

DmuluOps == RegRegOps("SH_OP_DMULU", {SH_SCALING_L})

Dmuls == \E op \in DmulsOps : pc = "ready" /\ Run(sh_il_dmuls(op), op)

Dmulu == \E op \in DmuluOps : pc = "ready" /\ Run(sh_il_dmulu(op), op)

\* the compare instructions: CMP/xx Rm, Rn and CMP/PZ Rn, CMP/PL Rn
CmpEqOps == RegRegOps("SH_OP_CMP_EQ", {SH_SCALING_L})

CmpHsOps == RegRegOps("SH_OP_CMP_HS", {SH_SCALING_L})

CmpGeOps == RegRegOps("SH_OP_CMP_GE", {SH_SCALING_L})

CmpHiOps == RegRegOps("SH_OP_CMP_HI", {SH_SCALING_L})

CmpGtOps == RegRegOps("SH_OP_CMP_GT", {SH_SCALING_L})

CmpPzOps ==
    {SHOp("SH_OP_CMP_PZ", Reg(r), NoParam, SH_SCALING_L) : r \in {RegBanked, RegPlain}}

CmpPlOps ==
    {SHOp("SH_OP_CMP_PL", Reg(r), NoParam, SH_SCALING_L) : r \in {RegBanked, RegPlain}}

CmpStrOps == RegRegOps("SH_OP_CMP_STR", {SH_SCALING_L})

CmpEq == \E op \in CmpEqOps : pc = "ready" /\ Run(sh_il_cmp_eq(op), op)

CmpHs == \E op \in CmpHsOps : pc = "ready" /\ Run(sh_il_cmp_hs(op), op)

CmpGe == \E op \in CmpGeOps : pc = "ready" /\ Run(sh_il_cmp_ge(op), op)

CmpHi == \E op \in CmpHiOps : pc = "ready" /\ Run(sh_il_cmp_hi(op), op)

CmpGt == \E op \in CmpGtOps : pc = "ready" /\ Run(sh_il_cmp_gt(op), op)

CmpPz == \E op \in CmpPzOps : pc = "ready" /\ Run(sh_il_cmp_pz(op), op)

CmpPl == \E op \in CmpPlOps : pc = "ready" /\ Run(sh_il_cmp_pl(op), op)

CmpStr == \E op \in CmpStrOps : pc = "ready" /\ Run(sh_il_cmp_str(op), op)

SetReg ==
    \E op \in SetRegOps :
        pc = "ready" /\ Run(sh_il_set_reg(op.reg, [op |-> "bitv", bits |-> op.val]), op)

Addv == \E op \in AddvOps : pc = "ready" /\ Run(sh_il_addv(op), op)

Addc == \E op \in AddcOps : pc = "ready" /\ Run(sh_il_addc(op), op)

Sub == \E op \in SubOps : pc = "ready" /\ Run(sh_il_sub(op), op)

Subc == \E op \in SubcOps : pc = "ready" /\ Run(sh_il_subc(op), op)

Dt == \E op \in DtOps : pc = "ready" /\ Run(sh_il_dt(op), op)

Exts == \E op \in ExtsOps : pc = "ready" /\ Run(sh_il_exts(op), op)

Mac == \E op \in MacOps : pc = "ready" /\ Run(sh_il_mac(op), op)

Mov == \E op \in MovOps : pc = "ready" /\ Run(sh_il_mov(op), op)

\* the register file and the arithmetic, extension, multiply-accumulate and
\* move instructions
Next ==
    \/ SetReg
    \/ WriteBack
    \/ Addv
    \/ Addc
    \/ Sub
    \/ Subc
    \/ Dt
    \/ Exts
    \/ Mac
    \/ Mov

Spec == Init /\ [][Next]_vars

\* operand access: reads and writes through every addressing mode, the
\* instructions that take an immediate source, and the instructions lifted
\* with an immediate destination
NextOperand ==
    \/ GetParam
    \/ SetParam
    \/ Add
    \/ And
    \/ Not
    \/ Div1Imm

\* the inputs from which a lifting that reads past the end of sh_scaling_size
\* is run: the arithmetic inputs with T clear and 0 in the register that is
\* no operand of the write
PastInputs ==
    {i \in Inputs : /\ i.b = ValueList[1]
                    /\ i.t = 0 /\ i.s = 0 /\ i.q = 0 /\ i.m = 0
                    /\ i.mac = <<DefaultReg("mach"), DefaultReg("macl")>>
                    /\ i.unbound = "abort"}

\* before a write that reads past the end, the bytes it reads are any bytes
InitPast == \E i \in PastInputs, table \in [PastIndexes -> Byte] : Start(i, table)

InitOperand == Init \/ InitPast

SpecOperand == InitOperand /\ [][NextOperand]_vars

\* division step, negation with borrow, double-length multiplication and
\* the comparisons
NextArith ==
    \/ Div1
    \/ Negc
    \/ Dmuls
    \/ Dmulu
    \/ CmpEq
    \/ CmpHs
    \/ CmpGe
    \/ CmpHi
    \/ CmpGt
    \/ CmpPz
    \/ CmpPl
    \/ CmpStr

SpecArith == Init /\ [][NextArith]_vars

---------------------------------------------------------------------------
(* disk.c: writing a store to disk through a temporary dump file *)

\* the Sdb pointer NULL
NullSdb == [null |-> TRUE]

\* descriptors the process can get are 3..MaxFd
MaxFd == 5

\* at most MaxCalls calls are made on the store, and at most MaxRecords
\* records are added to one dump
MaxCalls == 5
MaxRecords == 2

FdPool == 3..MaxFd

\* open(2): the lowest descriptor that is not open, or -1 when the call fails
\* or none is left
OpenFile(open_fds, ok) ==
    IF ok /\ FdPool \ open_fds # {}
    THEN CHOOSE fd \in FdPool \ open_fds : \A other \in FdPool \ open_fds : fd <= other
    ELSE -1

\* what a call gives back: the store, the open descriptors, the return value
Outcome(s, open_fds, ret) == [s |-> s, fds |-> open_fds, ret |-> ret]

\* sdb_disk_create without the test for a dump that is already open
sdb_disk_create_reopen(s, open_fds, out) ==
    IF s = NullSdb THEN Outcome(s, open_fds, FALSE)
    ELSE LET s1 == IF s.dir = NoString /\ s.name # NoString
                   THEN [s EXCEPT !.dir = IF out.strdup THEN s.name ELSE NoString]
                   ELSE s
             dir == IF s1.dir # NoString THEN s1.dir ELSE "./"
             s2 == [s1 EXCEPT !.ndump = NoString]
         IN IF ~out.malloc THEN Outcome(s2, open_fds, FALSE)
            ELSE LET str == dir \o ".tmp"
                     fds1 == IF s2.fdump # -1 THEN open_fds \ {s2.fdump} ELSE open_fds
                     fd == OpenFile(fds1, out.open)
                 IN IF fd = -1
                    THEN Outcome([s2 EXCEPT !.fdump = -1], fds1, FALSE)
                    ELSE Outcome([s2 EXCEPT !.fdump = fd,
                                            !.m = [fd |-> fd, n |-> 0],
                                            !.ndump = str],
                                 fds1 \cup {fd}, TRUE)

\* out.strdup, out.malloc and out.open say whether strdup, malloc and open
\* succeed; a strdup that fails leaves dir NULL, and the dump is then made
\* in "./"
sdb_disk_create(s, open_fds, out) ==
    IF s = NullSdb \/ s.fdump >= 0 THEN Outcome(s, open_fds, FALSE)
    ELSE LET s1 == IF s.dir = NoString /\ s.name # NoString
                   THEN [s EXCEPT !.dir = IF out.strdup THEN s.name ELSE NoString]
                   ELSE s
             dir == IF s1.dir # NoString THEN s1.dir ELSE "./"
             s2 == [s1 EXCEPT !.ndump = NoString]
         IN IF ~out.malloc THEN Outcome(s2, open_fds, FALSE)
            ELSE LET str == dir \o ".tmp"
                     fds1 == IF s2.fdump # -1 THEN open_fds \ {s2.fdump} ELSE open_fds
                     fd == OpenFile(fds1, out.open)
                 IN IF fd = -1
                    THEN Outcome([s2 EXCEPT !.fdump = -1], fds1, FALSE)
                    ELSE Outcome([s2 EXCEPT !.fdump = fd,
                                            !.m = [fd |-> fd, n |-> 0],
                                            !.ndump = str],
                                 fds1 \cup {fd}, TRUE)

\* out.add says whether cdb_make_add succeeds
sdb_disk_insert(s, key, val, open_fds, out) ==
    IF key = NoString \/ val = NoString THEN Outcome(s, open_fds, FALSE)
    ELSE IF out.add THEN Outcome([s EXCEPT !.m.n = @ + 1], open_fds, TRUE)
    ELSE Outcome(s, open_fds, FALSE)

\* out.finish, out.fsync, out.close, out.rename and out.reopen say whether
\* cdb_make_finish, fsync, close, rename and the open of sdb_open succeed; a
\* descriptor that is not open makes fsync and close fail. The build without
\* sys/mman.h has no fsync and the Windows build ignores the result of the
\* move: both behave as the calls that succeed.
sdb_disk_finish(s, open_fds, out) ==
    LET ret1 == out.finish
        ret2 == ret1 /\ out.fsync /\ s.fdump \in open_fds
        ret3 == ret2 /\ out.close /\ s.fdump \in open_fds
        fds1 == open_fds \ {s.fdump}
        s1 == [s EXCEPT !.fdump = -1]
        fds2 == IF s1.fd # -1 THEN fds1 \ {s1.fd} ELSE fds1
        s2 == IF s1.fd # -1 THEN [s1 EXCEPT !.fd = -1] ELSE s1
        ret4 == IF s2.ndump # NoString /\ s2.dir # NoString
                THEN ret3 /\ out.rename ELSE ret3
        s3 == [s2 EXCEPT !.ndump = NoString]
        rr == IF s3.dir = NoString THEN -1 ELSE OpenFile(fds2, out.reopen)
        s4 == [s3 EXCEPT !.fd = rr]
        fds3 == IF rr = -1 THEN fds2 ELSE fds2 \cup {rr}
    IN Outcome(s4, fds3, ret4 /\ rr >= 0)

\* the outcomes of the library and system calls
CreateOutcomes == [strdup : BOOLEAN, malloc : BOOLEAN, open : BOOLEAN]

InsertOutcomes == [add : BOOLEAN]

FinishOutcomes ==
    [finish : BOOLEAN, fsync : BOOLEAN, close : BOOLEAN, rename : BOOLEAN,
     reopen : BOOLEAN]

\* the keys and values handed to sdb_disk_insert
DiskStrings == {NoString, "k"}

\* the stores the calls start from: with and without a directory, a name and
\* an open database file
DiskStores ==
    {FreshSdb(dir, name, fd) :
        dir \in {NoString, "db"}, name \in {NoString, "n"}, fd \in {-1, 3}}

\* no instruction is lifted while the store is used
NoMachine == [g |-> <<>>, l |-> <<>>, m |-> <<>>, ok |-> TRUE]

InitDisk ==
    /\ pc = "ready"
    /\ insn = NoInsn
    /\ lifted = FALSE
    /\ vm = NoMachine
    /\ pre = NoMachine
    /\ oob = NoBytes
    /\ unbound = "abort"
    /\ sdb \in DiskStores
    /\ fds = IF sdb.fd = -1 THEN {} ELSE {sdb.fd}
    /\ log = <<>>

\* one entry of the log: the function, what it returned, and fdump and ndump
\* of the store before and after the call
DiskCall(fn, was, r) ==
    [fn |-> fn, ret |-> r.ret,
     was |-> [fdump |-> was.fdump, ndump |-> was.ndump],
     now |-> [fdump |-> r.s.fdump, ndump |-> r.s.ndump]]

\* a call made on the store
Called(fn, r) ==
    /\ sdb' = r.s
    /\ fds' = r.fds
    /\ log' = Append(log, DiskCall(fn, sdb, r))
    /\ UNCHANGED <<pc, insn, lifted, pre, vm, oob, unbound>>

DiskCreate ==
    \E out \in CreateOutcomes :
        Len(log) < MaxCalls /\ Called("sdb_disk_create", sdb_disk_create(sdb, fds, out))

\* sdb_disk_create(NULL) returns false and touches no store
DiskCreateNull ==
    \E out \in CreateOutcomes :
        /\ Len(log) < MaxCalls
        /\ sdb_disk_create(NullSdb, fds, out).ret = FALSE
        /\ Called("sdb_disk_create(NULL)", Outcome(sdb, fds, FALSE))

DiskInsert ==
    \E key \in DiskStrings, val \in DiskStrings, out \in InsertOutcomes :
        /\ Len(log) < MaxCalls
        /\ sdb.m.n < MaxRecords
        /\ Called("sdb_disk_insert", sdb_disk_insert(sdb, key, val, fds, out))

DiskFinish ==
    \E out \in FinishOutcomes :
        Len(log) < MaxCalls /\ Called("sdb_disk_finish", sdb_disk_finish(sdb, fds, out))

NextDisk ==
    \/ DiskCreate
    \/ DiskCreateNull
    \/ DiskInsert
    \/ DiskFinish

SpecDisk == InitDisk /\ [][NextDisk]_vars

---------------------------------------------------------------------------
(* Reference definitions for the properties: registers by name and 32-bit
   arithmetic on 16-bit halves, independent of the expression evaluator *)

\* the number a sequence of at most 16 bits stands for, least significant first
RECURSIVE NatOf(_)
NatOf(bits) == IF bits = <<>> THEN 0 ELSE Head(bits) + 2 * NatOf(Tail(bits))

Lo16(v) == NatOf(SubSeq(v, 1, 16))

Hi16(v) == NatOf(SubSeq(v, 17, 32))

Halves(v) == <<Lo16(v), Hi16(v)>>

\* x + y + c on halves: the 32-bit sum and the carry out of bit 31
RefAdd(x, y, c) ==
    LET lo == Lo16(x) + Lo16(y) + c
        hi == Hi16(x) + Hi16(y) + (lo \div 65536)
    IN [val |-> <<lo % 65536, hi % 65536>>, carry |-> hi \div 65536]

\* y - x - t on halves: the 32-bit difference and the borrow out of bit 31
RefSub(y, x, t) ==
    LET lo == Lo16(y) - Lo16(x) - t
        b == IF lo < 0 THEN 1 ELSE 0
        hi == Hi16(y) - Hi16(x) - b
    IN [val |-> <<(lo + 65536) % 65536, (hi + 65536) % 65536>>,
        borrow |-> IF hi < 0 THEN 1 ELSE 0]

\* the sign bit of a pair of halves
SignOf(h) == h[2] \div 32768

\* the storage a general register index names in machine state s: bank 1 of
\* r0..r7 when sr_d = 1 and sr_r = 1, bank 0 of r0..r7 otherwise, and the one
\* location of r8..r15
PhysReg(i, s) ==
    IF i < 8
    THEN "r" \o ToString(i) \o "b"
             \o (IF s.g["sr_d"] = <<1>> /\ s.g["sr_r"] = <<1>> THEN "1" ELSE "0")
    ELSE "r" \o ToString(i)

\* the other bank of a banked register, and the register itself otherwise
OtherBank(i, s) ==
    IF i < 8
    THEN "r" \o ToString(i) \o "b"
             \o (IF s.g["sr_d"] = <<1>> /\ s.g["sr_r"] = <<1>> THEN "0" ELSE "1")
    ELSE "r" \o ToString(i)

\* the instruction that ran, and its register operands before and after
Ran(mnemonic) == pc = "done" /\ insn.mnemonic = mnemonic

Before(x) == pre.g[PhysReg(insn.param[x].param[0], pre)]

After(x) == vm.g[PhysReg(insn.param[x].param[0], pre)]

FlagBefore(name) == pre.g[name][1]

FlagAfter(name) == vm.g[name][1]

\* a value as bytes, least significant first
BytesOf(v) == [k \in 1..(Len(v) \div 8) |-> NatOf(SubSeq(v, 8 * k - 7, 8 * k))]

\* a signed value of Len(b) bytes on n bytes
SignExt(b, n) ==
    [k \in 1..n |-> IF k <= Len(b) THEN b[k]
                    ELSE IF b[Len(b)] >= 128 THEN 255 ELSE 0]

\* a + b on bytes, modulo 256^Len(a)
RECURSIVE AddBytesFrom(_, _, _, _)
AddBytesFrom(a, b, c, acc) ==
    IF Len(acc) = Len(a) THEN acc
    ELSE LET t == a[Len(acc) + 1] + b[Len(acc) + 1] + c
         IN AddBytesFrom(a, b, t \div 256, Append(acc, t % 256))

RefAddBytes(a, b) == AddBytesFrom(a, b, 0, <<>>)

\* the sum of the byte products a[i] * b[j] with i + j = k + 1
RECURSIVE Column(_, _, _, _)
Column(a, b, k, i) == IF i > k THEN 0 ELSE a[i] * b[k + 1 - i] + Column(a, b, k, i + 1)

\* a * b on bytes, modulo 256^Len(a)
RECURSIVE MulBytesFrom(_, _, _, _)
MulBytesFrom(a, b, c, acc) ==
    IF Len(acc) = Len(a) THEN acc
    ELSE LET t == Column(a, b, Len(acc) + 1, 1) + c
         IN MulBytesFrom(a, b, t \div 256, Append(acc, t % 256))

RefMulBytes(a, b) == MulBytesFrom(a, b, 0, <<>>)

\* the accumulator MACH:MACL of machine state s as 8 bytes
MacOf(s) == BytesOf(s.g["macl"]) \o BytesOf(s.g["mach"])

\* the 32-bit word at an address before the instruction
WordAt(addr) == LoadBytes(pre.m, addr, 4)

\* what "the two operand values" of MAC.L @Rm+, @Rn+ can be read as: the
\* words in memory at the addresses Rm and Rn, or the contents of Rm and Rn
MacOperands ==
    { <<WordAt(Before(0)), WordAt(Before(1))>>, <<Before(0), Before(1)>> }

\* old MACH:MACL + x * y as a signed number of 9 bytes: no wrap
MacSum(x, y) ==
    RefAddBytes(SignExt(MacOf(pre), 9),
                RefMulBytes(SignExt(BytesOf(x), 9), SignExt(BytesOf(y), 9)))

\* a signed 9-byte number is in [-2^47, 2^47 - 1] iff its bits 47..71 agree
InRange48(v) ==
    LET sign == v[9] \div 128
    IN v[6] \div 128 = sign /\ \A k \in 7..9 : v[k] = 255 * sign

\* the nearest bound of [-2^47, 2^47 - 1] to a number outside it, on 8 bytes
Clamp48(v) ==
    IF v[9] >= 128 THEN <<0, 0, 0, 0, 0, 128, 255, 255>>
    ELSE <<255, 255, 255, 255, 255, 127, 0, 0>>

---------------------------------------------------------------------------
(* Properties *)

\* C1: for i in 0..7 the expression sh_il_get_reg(i) evaluates to the content
\* of r<i>b1 exactly when sr_d = 1 and sr_r = 1 and to r<i>b0 otherwise, for
\* i in 8..15 to the content of r<i>; and the effect sh_il_set_reg(i, v)
\* leaves v in that same location, the other bank keeping its content.
C1_BankedRegisterAccess ==
    /\ \A i \in 0..15 : EvalPure(sh_il_get_reg(i), vm) = vm.g[PhysReg(i, vm)]
    /\ Ran("set_reg") =>
          /\ lifted
          /\ vm.ok
          /\ vm.g[PhysReg(insn.reg, pre)] = insn.val
          /\ insn.reg < 8 => vm.g[OtherBank(insn.reg, pre)] = pre.g[OtherBank(insn.reg, pre)]

\* C1 witness: with sr_d = 1 and sr_r = 1 a write to index 3 landed in r3b1
\* and left r3b0, which holds another value, alone
C1_Witness ==
    /\ Ran("set_reg")
    /\ insn.reg = 3
    /\ pre.g["sr_d"] = <<1>>
    /\ pre.g["sr_r"] = <<1>>
    /\ vm.g["r3b1"] = insn.val
    /\ pre.g["r3b1"] # insn.val
    /\ vm.g["r3b0"] = pre.g["r3b0"]
    /\ vm.g["r3b0"] # insn.val
    /\ EvalPure(sh_il_get_reg(3), vm) = insn.val

\* C2: ADDV Rm,Rn leaves Rn = (x + y) mod 2^32 and T = 1 exactly when the
\* signed addition of the values x, y the operands held before the instruction
\* overflows (x and y have the same sign and the sum has the other), else 0.
C2_AddvSignedOverflow ==
    Ran("SH_OP_ADDV") =>
        LET x == Before(0)
            y == Before(1)
            r == RefAdd(x, y, 0)
            overflow == x[32] = y[32] /\ SignOf(r.val) # x[32]
        IN /\ lifted
           /\ vm.ok
           /\ Halves(After(1)) = r.val
           /\ FlagAfter(SH_SR_T) = (IF overflow THEN 1 ELSE 0)

\* C3: ADDC Rm,Rn leaves Rn = (x + y + t) mod 2^32 and T = 1 exactly when
\* x + y + t >= 2^32 for the values x, y, t held before the instruction.
C3_AddcCarry ==
    Ran("SH_OP_ADDC") =>
        LET r == RefAdd(Before(0), Before(1), FlagBefore(SH_SR_T))
        IN /\ lifted
           /\ vm.ok
           /\ Halves(After(1)) = r.val
           /\ FlagAfter(SH_SR_T) = r.carry

\* C4: SUB Rm,Rn leaves Rn = (Rn - Rm) mod 2^32, destination minus source.
C4_SubDestinationMinusSource ==
    Ran("SH_OP_SUB") =>
        /\ lifted
        /\ vm.ok
        /\ Halves(After(1)) = RefSub(Before(1), Before(0), 0).val

\* C5: SUBC Rm,Rn with Rm = x, Rn = y, T = t leaves Rn = (y - x - t) mod 2^32
\* and T = 1 exactly when y < x + t as unsigned integers, else 0.
C5_SubcBorrow ==
    Ran("SH_OP_SUBC") =>
        LET r == RefSub(Before(1), Before(0), FlagBefore(SH_SR_T))
        IN /\ lifted
           /\ vm.ok
           /\ Halves(After(1)) = r.val
           /\ FlagAfter(SH_SR_T) = r.borrow

\* C6: DT Rn leaves Rn = (Rn - 1) mod 2^32 and T = 1 exactly when the
\* decremented result is zero, T = 0 for every other value.
C6_DtZeroFlag ==
    Ran("SH_OP_DT") =>
        LET r == RefSub(Before(0), Bits(1, SH_REG_SIZE), 0)
        IN /\ lifted
           /\ vm.ok
           /\ Halves(After(0)) = r.val
           /\ FlagAfter(SH_SR_T) = (IF r.val = <<0, 0>> THEN 1 ELSE 0)

\* C7: EXTS.B Rm,Rn leaves in Rn the low 8 bits of Rm with bits 8..31 all
\* equal to bit 7 of Rm; EXTS.W the low 16 bits with bits 16..31 equal to
\* bit 15.
C7_ExtsSignExtends ==
    Ran("SH_OP_EXTS") =>
        LET w == IF insn.scaling = SH_SCALING_B THEN 8 ELSE 16
            src == Before(0)
        IN /\ lifted
           /\ vm.ok
           /\ \A i \in 1..SH_REG_SIZE :
                 After(1)[i] = (IF i <= w THEN src[i] ELSE src[w])

\* C8: MAC.L with S = 0 leaves MACH:MACL = (old MACH:MACL + signed 64-bit
\* product of the two 32-bit operand values) mod 2^64, MACH the high half and
\* MACL the low half; so a non-zero product changes MACH:MACL.
C8_MacWraps ==
    (Ran("SH_OP_MAC") /\ FlagBefore(SH_SR_S) = 0) =>
        \E o \in MacOperands : MacOf(vm) = SubSeq(MacSum(o[1], o[2]), 1, 8)

\* C9: MAC.L with S = 1 stores the nearest bound of [-2^47, 2^47 - 1] when
\* old MACH:MACL plus the signed product lies outside that range, and the sum
\* itself when it lies inside.
C9_MacSaturates ==
    (Ran("SH_OP_MAC") /\ FlagBefore(SH_SR_S) = 1) =>
        \E o \in MacOperands :
            LET sum == MacSum(o[1], o[2])
            IN MacOf(vm) = (IF InRange48(sum) THEN SubSeq(sum, 1, 8) ELSE Clamp48(sum))

\* C10: MOV with any source mode lifts to an effect; executing it writes the
\* value read from the source into the destination, @Rm+ leaves Rm increased
\* by 4 and @-Rm leaves Rm decreased by 4.  The value read through a register
\* is taken to be the word at the address, or the address.
C10_MovEffects ==
    Ran("SH_OP_MOV") =>
        LET mode == insn.param[0].mode
            base == Before(0)
            down == RefSub(base, Bits(4, SH_REG_SIZE), 0).val
            addr == IF mode = "SH_REG_INDIRECT_D"
                    THEN Bits(down[1], 16) \o Bits(down[2], 16)
                    ELSE base
        IN /\ lifted
           /\ vm.ok
           /\ mode = "SH_REG_DIRECT" => After(1) = base
           /\ mode # "SH_REG_DIRECT" => After(1) \in {WordAt(addr), addr}
           /\ mode \in {"SH_REG_DIRECT", "SH_REG_INDIRECT"} => After(0) = base
           /\ mode = "SH_REG_INDIRECT_I" =>
                 Halves(After(0)) = RefAdd(base, Bits(4, SH_REG_SIZE), 0).val
           /\ mode = "SH_REG_INDIRECT_D" => Halves(After(0)) = down


\* the scale size of a scaling tag: 1 for byte, 2 for word, 4 for longword
RefScale(sc) ==
    CASE sc = SH_SCALING_B -> 1
      [] sc = SH_SCALING_W -> 2
      [] sc = SH_SCALING_L -> 4

\* v + k and v - k modulo 2^32 for a small k, as a 32-bit value
PlusSmall(v, k) ==
    LET lo == Lo16(v) + k
    IN Limbs(<<lo % 65536, (Hi16(v) + lo \div 65536) % 65536>>, 32)

MinusSmall(v, k) ==
    LET lo == Lo16(v) - k
        b == IF lo < 0 THEN 1 ELSE 0
    IN Limbs(<<(lo + 65536) % 65536, (Hi16(v) - b + 65536) % 65536>>, 32)

\* the mode and the scale size of the operand GetParam or SetParam acted on
ModeIs(mode) == insn.param[0].mode = mode

ScaleOf == RefScale(insn.scaling)

\* the operand read is the address addr or the content of memory at addr
ReadAt(addr) ==
    /\ Operand \in DOMAIN vm.l
    /\ \/ vm.l[Operand] = addr
       \/ vm.l[Operand] = LoadBytes(pre.m, addr, ScaleOf)

\* the low ScaleOf bytes of the value stored are in memory at addr
StoredAt(addr) ==
    LoadBytes(vm.m, addr, ScaleOf) = SubSeq(insn.val, 1, BITS_PER_BYTE * ScaleOf)

\* C11: through sh_il_get_param and sh_il_set_param, with scale size s in
\* {1, 2, 4}: a pre-decrement operand has its base register decreased by
\* exactly s before the access, which uses the decremented value as address;
\* a post-increment operand is accessed at the unmodified base value and the
\* base register is increased by exactly s after the access.
C11_AutoModifyAddressing ==
    /\ (Ran("get_param") /\ ModeIs("SH_REG_INDIRECT_D")) =>
          /\ lifted /\ vm.ok
          /\ After(0) = MinusSmall(Before(0), ScaleOf)
          /\ ReadAt(MinusSmall(Before(0), ScaleOf))
    /\ (Ran("get_param") /\ ModeIs("SH_REG_INDIRECT_I")) =>
          /\ lifted /\ vm.ok
          /\ After(0) = PlusSmall(Before(0), ScaleOf)
          /\ ReadAt(Before(0))
    /\ (Ran("set_param") /\ ModeIs("SH_REG_INDIRECT_D")) =>
          /\ lifted /\ vm.ok
          /\ After(0) = MinusSmall(Before(0), ScaleOf)
          /\ StoredAt(MinusSmall(Before(0), ScaleOf))
    /\ (Ran("set_param") /\ ModeIs("SH_REG_INDIRECT_I")) =>
          /\ lifted /\ vm.ok
          /\ After(0) = PlusSmall(Before(0), ScaleOf)
          /\ StoredAt(Before(0))

\* the sum of two 32-bit values modulo 2^32, as a 32-bit value
Plus(x, y) == Limbs(RefAdd(x, y, 0).val, 32)

\* a register operand named by field k of the operand GetParam or SetParam
\* acted on, before the operation
RegField(k) == pre.g[PhysReg(insn.param[0].param[k], pre)]

\* pc with its low 2 bits cleared exactly when the scale size is 4
PcBase == IF ScaleOf = 4 THEN <<0, 0>> \o SubSeq(pre.g["pc"], 3, 32) ELSE pre.g["pc"]

\* the effective address of the operand GetParam or SetParam acted on, from
\* the machine state before the operation
EffAddr ==
    CASE ModeIs("SH_REG_INDIRECT") \/ ModeIs("SH_REG_INDIRECT_I") -> RegField(0)
      [] ModeIs("SH_REG_INDIRECT_D") -> MinusSmall(RegField(0), ScaleOf)
      [] ModeIs("SH_REG_INDIRECT_DISP") ->
            PlusSmall(RegField(0), insn.param[0].param[1] * ScaleOf)
      [] ModeIs("SH_REG_INDIRECT_INDEXED") -> Plus(RegField(0), RegField(1))
      [] ModeIs("SH_GBR_INDIRECT_DISP") ->
            PlusSmall(pre.g["gbr"], insn.param[0].param[0] * ScaleOf)
      [] ModeIs("SH_GBR_INDIRECT_INDEXED") -> Plus(pre.g["gbr"], RegField(0))
      [] ModeIs("SH_PC_RELATIVE_DISP") ->
            PlusSmall(PcBase, 4 + insn.param[0].param[0] * ScaleOf)
      [] ModeIs("SH_PC_RELATIVE") ->
            PlusSmall(pre.g["pc"], 4 + 2 * insn.param[0].param[0])
      [] ModeIs("SH_PC_RELATIVE_REG") -> Plus(PlusSmall(pre.g["pc"], 4), RegField(0))

LoadModes ==
    {"SH_REG_INDIRECT", "SH_REG_INDIRECT_I", "SH_REG_INDIRECT_D", "SH_REG_INDIRECT_DISP",
     "SH_REG_INDIRECT_INDEXED", "SH_GBR_INDIRECT_DISP", "SH_GBR_INDIRECT_INDEXED",
     "SH_PC_RELATIVE_DISP"}

BranchModes == {"SH_PC_RELATIVE", "SH_PC_RELATIVE_REG"}

\* C12: the value sh_il_get_param returns for a register-indirect,
\* post-increment, pre-decrement, displacement, indexed, GBR or
\* PC-relative-with-displacement operand is the content of memory at the
\* operand's effective address, scaling * 8 bits wide, not the address; for
\* the PC-relative and PC-relative-with-register operands it is the address.
C12_GetParamLoads ==
    Ran("get_param") =>
        /\ insn.param[0].mode \in LoadModes =>
              /\ lifted /\ vm.ok
              /\ Operand \in DOMAIN vm.l
              /\ vm.l[Operand] = LoadBytes(pre.m, EffAddr, ScaleOf)
        /\ insn.param[0].mode \in BranchModes =>
              /\ lifted /\ vm.ok
              /\ Operand \in DOMAIN vm.l
              /\ vm.l[Operand] = EffAddr

\* the address the operand read by GetParam was read at: the address of the
\* load when the operand is a load, and the operand itself when it is an
\* address
ReadAddr ==
    LET h == sh_il_get_param(insn.param[0], insn.scaling)
    IN IF h.pure.op = "loadw" THEN EvalPure(h.pure.x, pre) ELSE EvalPure(h.pure, pre)

DispModes == {"SH_REG_INDIRECT_DISP", "SH_GBR_INDIRECT_DISP", "SH_PC_RELATIVE_DISP"}

\* C13: for a register-indirect-with-displacement or GBR-with-displacement
\* operand the address used by the read path and by the store path is
\* base + displacement * s modulo 2^32, s being 1, 2 or 4 for byte, word or
\* longword; for PC-relative-with-displacement it is (pc with its low 2 bits
\* cleared exactly when s = 4) + 4 + displacement * s.
C13_DisplacementAddress ==
    /\ (Ran("get_param") /\ insn.param[0].mode \in DispModes) =>
          /\ lifted /\ vm.ok
          /\ ReadAddr = EffAddr
    /\ (Ran("set_param") /\ insn.param[0].mode \in DispModes) =>
          /\ lifted /\ vm.ok
          /\ StoredAt(EffAddr)

ImmModes == {"SH_IMM_U", "SH_IMM_S"}

\* C14: sh_il_set_param on an unsigned or signed immediate operand yields no
\* effect, for every value and scaling: nothing is lifted, no register is
\* written and no memory is stored; and the same holds for any instruction
\* whose destination operand is an immediate.
C14_NoEffectOnImmediate ==
    /\ (Ran("set_param") /\ insn.param[0].mode \in ImmModes) =>
          ~lifted /\ vm = pre
    /\ (pc = "done" /\ insn.param[1].mode \in ImmModes) =>
          ~lifted /\ vm = pre

\* one step of the reference manual's DIV1 on the state before the
\* instruction: R1 = (Rn << 1) | T, then R1 - Rm when Q = M and R1 + Rm
\* otherwise, and the borrow or carry of that operation
Div1Ref ==
    LET q0 == FlagBefore("sr_q")
        m == FlagBefore("sr_m")
        q1 == Before(1)[32]
        r1 == <<FlagBefore("sr_t")>> \o SubSeq(Before(1), 1, 31)
        res == IF q0 = m THEN RefSub(r1, Before(0), 0) ELSE RefAdd(r1, Before(0), 0)
        c == IF q0 = m THEN res.borrow ELSE res.carry
        q == (q1 + m + c) % 2
    IN [val |-> res.val, q |-> q, t |-> IF q = m THEN 1 ELSE 0]

\* C15: one DIV1 Rm,Rn step (Rm # Rn) is the reference manual's non-restoring
\* step for all four (old Q, M) combinations: Rn becomes R1 - Rm or R1 + Rm,
\* the final Q is Q1 XOR M XOR the borrow or carry, and T = 1 exactly when
\* the final Q equals M.
C15_Div1Step ==
    Ran("SH_OP_DIV1") =>
        /\ lifted /\ vm.ok
        /\ Halves(After(1)) = Div1Ref.val
        /\ FlagAfter("sr_q") = Div1Ref.q
        /\ FlagAfter("sr_t") = Div1Ref.t
        /\ FlagAfter("sr_m") = FlagBefore("sr_m")
        /\ After(0) = Before(0)

\* C16: for every general register index 0..15 and each combination of sr_d
\* and sr_r, executing sh_il_set_reg(i, sh_il_get_reg(i)) leaves every
\* register, both banks of every banked register, and every status flag
\* unchanged.
C16_WriteBackChangesNothing ==
    Ran("write_back") =>
        /\ lifted /\ vm.ok
        /\ \A n \in GlobalNames : vm.g[n] = pre.g[n]
        /\ vm.m = pre.m

\* C16 witness: with sr_d = 1 and sr_r = 1, r3 was written back while its two
\* banks held different values, and both banks kept them
C16_Witness ==
    /\ Ran("write_back")
    /\ insn.reg = 3
    /\ pre.g["sr_d"] = <<1>>
    /\ pre.g["sr_r"] = <<1>>
    /\ pre.g["r3b0"] # pre.g["r3b1"]
    /\ lifted /\ vm.ok
    /\ vm.g["r3b0"] = pre.g["r3b0"]
    /\ vm.g["r3b1"] = pre.g["r3b1"]

\* C17: NEGC Rm,Rn on direct registers, Rm = Rn included: from Rm = x and
\* T = t the lifted effect leaves Rn = (0 - x - t) mod 2^32 and T = 1 exactly
\* when the subtraction borrows (x + t > 0), both from the values before the
\* instruction.
C17_NegcBorrow ==
    Ran("SH_OP_NEGC") =>
        LET ref == RefSub(BvZero(SH_REG_SIZE), Before(0), FlagBefore("sr_t"))
        IN /\ lifted /\ vm.ok
           /\ Halves(After(1)) = ref.val
           /\ FlagAfter("sr_t") = ref.borrow

\* an unsigned value of Len(b) bytes on n bytes
ZeroExt(b, n) == [k \in 1..n |-> IF k <= Len(b) THEN b[k] ELSE 0]

\* the 64-bit product of Rm and Rn before the instruction as 8 bytes, both
\* sign-extended or both zero-extended
Product64(signed) ==
    IF signed
    THEN RefMulBytes(SignExt(BytesOf(Before(0)), 8), SignExt(BytesOf(Before(1)), 8))
    ELSE RefMulBytes(ZeroExt(BytesOf(Before(0)), 8), ZeroExt(BytesOf(Before(1)), 8))

\* C18: after DMULS.L or DMULU.L on direct registers MACH holds the high and
\* MACL the low 32 bits of the 64-bit product of Rm and Rn, the operands
\* sign-extended to 64 bits for DMULS and zero-extended for DMULU; Rm and Rn
\* are unchanged.
C18_DoubleLengthMultiply ==
    /\ Ran("SH_OP_DMULS") =>
          /\ lifted /\ vm.ok
          /\ MacOf(vm) = Product64(TRUE)
          /\ After(0) = Before(0) /\ After(1) = Before(1)
    /\ Ran("SH_OP_DMULU") =>
          /\ lifted /\ vm.ok
          /\ MacOf(vm) = Product64(FALSE)
          /\ After(0) = Before(0) /\ After(1) = Before(1)

\* C18 witness: DMULS.L of 0xFFFFFFFF (-1) and 0x7FFFFFFF left
\* 0xFFFFFFFF80000001 in MACH:MACL
C18_Witness ==
    /\ Ran("SH_OP_DMULS")
    /\ Before(0) = ValueList[3]
    /\ Before(1) = ValueList[4]
    /\ lifted /\ vm.ok
    /\ vm.g["mach"] = ValueList[3]
    /\ vm.g["macl"] = Limbs(<<1, 32768>>, 32)

\* x < y for 32-bit values read as unsigned and as signed numbers
ULess(x, y) ==
    \/ Hi16(x) < Hi16(y)
    \/ Hi16(x) = Hi16(y) /\ Lo16(x) < Lo16(y)

SLess(x, y) == IF x[32] # y[32] THEN x[32] = 1 ELSE ULess(x, y)

\* a compare instruction ran, set T to the truth of cond and changed
\* nothing else
Compared(cond) ==
    /\ lifted /\ vm.ok
    /\ FlagAfter("sr_t") = (IF cond THEN 1 ELSE 0)
    /\ \A n \in GlobalNames \ {"sr_t"} : vm.g[n] = pre.g[n]
    /\ vm.m = pre.m

\* C19: the compare instructions set T to the comparison of the destination
\* Rn (operand 1) against the source Rm (operand 0) and change nothing else:
\* CMP/EQ Rn = Rm; CMP/HS Rn >= Rm unsigned; CMP/GE Rn >= Rm signed; CMP/HI
\* Rn > Rm unsigned; CMP/GT Rn > Rm signed; CMP/PZ Rn >= 0 and CMP/PL Rn > 0
\* signed (one operand); CMP/STR some byte lane of Rm and Rn is equal.
C19_CompareSetsT ==
    /\ Ran("SH_OP_CMP_EQ") => Compared(Before(1) = Before(0))
    /\ Ran("SH_OP_CMP_HS") => Compared(~ULess(Before(1), Before(0)))
    /\ Ran("SH_OP_CMP_GE") => Compared(~SLess(Before(1), Before(0)))
    /\ Ran("SH_OP_CMP_HI") => Compared(ULess(Before(0), Before(1)))
    /\ Ran("SH_OP_CMP_GT") => Compared(SLess(Before(0), Before(1)))
    /\ Ran("SH_OP_CMP_PZ") => Compared(Before(0)[32] = 0)
    /\ Ran("SH_OP_CMP_PL") => Compared(Before(0)[32] = 0 /\ Before(0) # BvZero(SH_REG_SIZE))
    /\ Ran("SH_OP_CMP_STR") =>
          Compared(\E k \in 1..4 : BytesOf(Before(0))[k] = BytesOf(Before(1))[k])

\* the names an expression or effect tree accesses as global variables, and
\* as local variables: the variables it reads and the variables it sets
RECURSIVE GlobalsOf(_)
GlobalsOf(e) ==
    (IF e.op \in {"var", "set"} /\ e.global THEN {e.v} ELSE {})
    \cup UNION {GlobalsOf(e[f]) : f \in DOMAIN e \cap {"c", "x", "y", "t", "f"}}

RECURSIVE LocalsOf(_)
LocalsOf(e) ==
    (IF e.op \in {"var", "set"} /\ ~e.global THEN {e.v} ELSE {})
    \cup UNION {LocalsOf(e[f]) : f \in DOMAIN e \cap {"c", "x", "y", "t", "f"}}

\* the instruction-scoped temporaries
Temporaries == {"old_q", "tmp0", "tmp1", "res_wide", "mac"}

\* an instruction of the dispatch table ran
Dispatched == pc = "done" /\ SubSeq(insn.mnemonic, 1, 6) = "SH_OP_"

\* C20: in the effect tree a lifting function of the dispatch table emits,
\* every variable accessed as a global is an entry of sh_global_registers or
\* one of the eight status bits, and the temporaries old_q, tmp0, tmp1,
\* res_wide and mac are accessed only as locals and are no global names.
C20_GlobalAndLocalNames ==
    Dispatched =>
        LET tree == sh_ops(insn)
        IN /\ GlobalsOf(tree) \subseteq GlobalNames
           /\ GlobalsOf(tree) \cap Temporaries = {}
           /\ LocalsOf(tree) \cap GlobalNames = {}
           /\ Temporaries \cap GlobalNames = {}


\* the global variables assigned, in order, when effect e is executed from
\* machine state s
RECURSIVE StoresOf(_, _)
StoresOf(e, s) ==
    IF ~s.ok THEN <<>>
    ELSE CASE e.op = "set" ->
                IF e.global /\ ~IsErr(EvalPure(e.x, s)) THEN <<e.v>> ELSE <<>>
           [] e.op = "seq" -> StoresOf(e.x, s) \o StoresOf(e.y, ExecEffect(e.x, s))
           [] e.op = "branch" ->
                LET c == EvalPure(e.c, s)
                IN IF c = <<1>> THEN StoresOf(e.t, s)
                   ELSE IF c = <<0>> THEN StoresOf(e.f, s)
                   ELSE <<>>
           [] OTHER -> <<>>

\* the effect sh_il_set_reg built for the write that ran
SetRegEffect == sh_il_set_reg(insn.reg, [op |-> "bitv", bits |-> insn.val])

\* C21: executing sh_il_set_reg(i, v) for a banked index i in 0..7 leaves v in
\* the location that sr_d AND sr_r selected before the write and changes
\* nothing else: the other bank, every other register, every status flag,
\* memory and the local variables keep their content; the effect is a branch
\* between two assignments, and exactly one assignment is executed, to the
\* selected location.
C21_SetRegWritesOneBank ==
    (Ran("set_reg") /\ insn.reg < SH_BANKED_REG_COUNT) =>
        /\ lifted /\ vm.ok
        /\ vm.g[PhysReg(insn.reg, pre)] = insn.val
        /\ \A n \in GlobalNames \ {PhysReg(insn.reg, pre)} : vm.g[n] = pre.g[n]
        /\ vm.m = pre.m
        /\ vm.l = pre.l
        /\ SetRegEffect.op = "branch"
        /\ SetRegEffect.t.op = "set" /\ SetRegEffect.f.op = "set"
        /\ SetRegEffect.t.v # SetRegEffect.f.v
        /\ StoresOf(SetRegEffect, pre) = <<PhysReg(insn.reg, pre)>>

\* C21 witness: with sr_d = 1 and sr_r = 0 a write to index 3 changed r3b0,
\* left r3b1, which holds another value, alone, and executed one assignment
C21_Witness ==
    /\ Ran("set_reg")
    /\ insn.reg = 3
    /\ pre.g["sr_d"] = <<1>>
    /\ pre.g["sr_r"] = <<0>>
    /\ pre.g["r3b0"] # insn.val
    /\ vm.g["r3b0"] = insn.val
    /\ vm.g["r3b1"] = pre.g["r3b1"]
    /\ vm.g["r3b1"] # insn.val
    /\ StoresOf(SetRegEffect, pre) = <<"r3b0">>

\* the positions of the log where function fn was called
CallsOf(fn) == {i \in 1..Len(log) : log[i].fn = fn}

\* the positions of the log where sdb_disk_create returned true
Created == {i \in CallsOf("sdb_disk_create") : log[i].ret}

\* C22: over any sequence of sdb_disk_create, sdb_disk_insert and
\* sdb_disk_finish calls on one store, a sdb_disk_create made while a dump is
\* open (fdump >= 0) returns false and leaves fdump and ndump as they were;
\* between two sdb_disk_create calls that returned true there is a
\* sdb_disk_finish; and every sdb_disk_finish, whatever it returns, leaves
\* fdump = -1 and ndump = NULL.
C22_DumpLifecycle ==
    /\ \A i \in CallsOf("sdb_disk_create") :
          log[i].was.fdump >= 0 => (~log[i].ret /\ log[i].now = log[i].was)
    /\ \A i \in Created : \A j \in Created :
          i < j => \E k \in CallsOf("sdb_disk_finish") : i < k /\ k < j
    /\ \A i \in CallsOf("sdb_disk_finish") :
          log[i].now.fdump = -1 /\ log[i].now.ndump = NoString
    /\ Len(log) > 0 =>
          (log[Len(log)].now.fdump = sdb.fdump /\ log[Len(log)].now.ndump = sdb.ndump)

\* C22 witness: a dump was created, a second create was refused and changed
\* nothing, a finish returned true, a new dump was created, and a finish that
\* returned false still left fdump = -1 and ndump = NULL
C22_Witness ==
    /\ Len(log) = 5
    /\ log[1].fn = "sdb_disk_create" /\ log[1].ret /\ log[1].now.fdump >= 0
    /\ log[2].fn = "sdb_disk_create" /\ ~log[2].ret
    /\ log[2].was.fdump >= 0 /\ log[2].now = log[2].was
    /\ log[2].now.ndump # NoString
    /\ log[3].fn = "sdb_disk_finish" /\ log[3].ret
    /\ log[3].was.fdump >= 0 /\ log[3].now.fdump = -1 /\ log[3].now.ndump = NoString
    /\ log[4].fn = "sdb_disk_create" /\ log[4].ret
    /\ log[5].fn = "sdb_disk_finish" /\ ~log[5].ret
    /\ sdb.fdump = -1 /\ sdb.ndump = NoString

===========================================================================
